---- MODULE Spec2Model ----
(***************************************************************************)
(* plz-cli: the stack resolver (stack.Load, CommitInfo.Status) and the     *)
(* stack synchronizer (actions.Sync, pullBranch) over a local git          *)
(* repository, its remote, and the review service.                         *)
(***************************************************************************)
EXTENDS Integers, Sequences, FiniteSets, TLC

(* Largest number of commits above the trunk commit in a generated history. *)
MaxStack == 3

(* Number of commits in a generated commit graph handed to Load alone. *)
MaxNodes == 4

(* Largest revision number of a CommitInfo handed to Status alone. *)
MaxRevision == 4

(* the renderer: commits in the sorted list, parent hashes per commit, and  *)
(* the rows a single commit may take before the model gives up              *)
MaxCommits == 5
MaxParents == 3
MaxLines == 12

Pos == 1..MaxStack

(* ---- commit hashes, branch names, review ids -------------------------- *)
(* T: the trunk commit; L(p): the local commit at position p above trunk   *)
(* (position 1 is nearest trunk); U(p): the commit the remote holds for     *)
(* the review of position p (an updated revision, or its merge commit).     *)
T == <<"T", 0>>
L(p) == <<"L", p>>
U(p) == <<"U", p>>
Hash == {T} \cup {L(p) : p \in Pos} \cup {U(p) : p \in Pos}

MainBranch == <<"main", 0>>
WorkBranch == <<"work", 0>>
ReviewBranch(p) == <<"review", p>>

ReviewStatusDeleted == "deleted"
ReviewStatusMerged == "merged"
ReviewStatusOpen == "open"

CommitStatusBehind == "behind"
CommitStatusCurrent == "current"
CommitStatusModified == "modified"
CommitStatusNew == "new"

VARIABLES
    graph,       \* commit contents: hash -> [parents, review] (immutable objects)
    objects,     \* hashes of the commit objects in the local object store
    refs,        \* local branch references: branch name -> hash
    remoteRefs,  \* remote-tracking references refs/remotes/origin/*
    origin,      \* the branches of the remote repository
    HEAD,        \* <<"branch", name>> or <<"hash", h>> (detached)
    worktree,    \* [edits, tree]: uncommitted edits, and the commit the files came from
    reviews,     \* the review service: review id -> [status, headBranch, revs]
    pc,          \* position of the Sync run: "idle", "loop", "post", "done"
    run,         \* number of the Sync run in progress (1 or 2)
    s,           \* the stack Load returned to Sync
    i,           \* Sync's loop index (1-based: Go's i + 1)
    newBase,     \* Sync's newBase: <<>>, <<"sha", h>> or <<"branch", b>>
    newHeadRef,  \* Sync's newHeadRef: <<>> (nil) or <<h>>
    headRefName, \* Sync's headRefName, read at entry
    ret,         \* what Sync returned: <<>> while running, else a record
    log,         \* the calls Sync made in this run, in order
    entry,       \* the repository and service state when this run was entered
    render,      \* the graph renderer g (switch.go's graph struct)
    items,       \* the select items makeSelectItems has built so far
    sort,        \* topologicalSort's call: [tips, commits, sorted]
    walk         \* bfs's call: [tipHashes, trunk, tips, err]

vars == <<graph, objects, refs, remoteRefs, origin, HEAD, worktree, reviews,
          pc, run, s, i, newBase, newHeadRef, headRefName, ret, log, entry,
          render, items, sort, walk>>

renderVars == <<render, items>>

switchVars == <<sort, walk>>

\* Before topologicalSort or bfs has been called.
NoSort == [tips |-> <<>>, commits |-> <<>>, sorted |-> <<>>]

NoWalk == [tipHashes |-> <<>>, trunk |-> <<>>, tips |-> <<>>, err |-> ""]

repoVars == <<objects, refs, remoteRefs, origin, HEAD, worktree, reviews>>

(* ---- helpers ----------------------------------------------------------- *)
Last(q) == q[Len(q)]

(* No graph renderer: the commands that draw no graph.                      *)
NoGraph == <<>>

RECURSIVE Ancestors(_, _)
(* Every commit reachable from h through parent links in g, h included. *)
Ancestors(g, h) ==
    {h} \cup UNION {Ancestors(g, g[h].parents[k]) : k \in 1..Len(g[h].parents)}

(* go-git's Commit.MergeBase: the common ancestors of a and b that are not  *)
(* ancestors of another common ancestor.                                    *)
MergeBase(g, a, b) ==
    LET common == Ancestors(g, a) \cap Ancestors(g, b)
    IN {c \in common : \A d \in common \ {c} : c \notin Ancestors(g, d)}

(* readReviewIDFromCommitMessage: the review id of the trailer, <<>> if none *)
readReviewIDFromCommitMessage(g, h) == g[h].review

(* ---- the review service (external; queried through GraphQL) ------------ *)
(* A stored revision is [head, baseBranch, parent]; its number is its index *)
(* in the review's revs; parent is <<>> or <<review id, revision number>>.  *)
Revision(rv, id, n) ==
    [reviewID |-> id, number |-> n,
     baseBranch |-> rv[id].revs[n].baseBranch, head |-> rv[id].revs[n].head]

(* latestRevisionList: revisionList(options: {count: 1}) *)
LatestRevision(rv, id) == Revision(rv, id, Len(rv[id].revs))

(* localRevisionList: revisionList(count: 1, filter: headCommitSha): <<>> or <<n>> *)
LocalRevisionNumber(rv, id, sha) ==
    LET hits == {n \in 1..Len(rv[id].revs) : rv[id].revs[n].head = sha}
    IN IF hits = {} THEN <<>> ELSE <<CHOOSE n \in hits : \A m \in hits : m <= n>>

RECURSIVE LinkedRevisions(_, _, _)
(* linkedRevisions(reviewID, revisionNumber, direction: ancestors): the     *)
(* revision and its recorded ancestors, furthest ancestor last.             *)
LinkedRevisions(rv, id, n) ==
    IF id \notin DOMAIN rv \/ n \notin 1..Len(rv[id].revs) THEN <<>>
    ELSE LET parent == rv[id].revs[n].parent
         IN <<(<<id, n>>)>> \o
            (IF parent = <<>> THEN <<>> ELSE LinkedRevisions(rv, parent[1], parent[2]))

(* ---- stack: CommitInfo.Status ------------------------------------------ *)
Status_NewerLocalIsCurrent(ci) ==
    IF ci.review = <<>> THEN CommitStatusNew
    ELSE IF ci.review[1].local = <<>> THEN CommitStatusModified
    ELSE IF ci.review[1].local[1].number < ci.review[1].latest.number
         THEN CommitStatusBehind
    ELSE CommitStatusCurrent

Status_AnyLocalIsCurrent(ci) ==
    IF ci.review = <<>> THEN CommitStatusNew
    ELSE IF ci.review[1].local = <<>> THEN CommitStatusModified
    ELSE CommitStatusCurrent

(* A CommitInfo is [commit, full, review]: review is <<>> (nil) or          *)
(* <<[id, status, headBranch, latest, local]>>, local <<>> or <<Revision>>. *)
Status(ci) ==
    IF ci.review = <<>> THEN CommitStatusNew
    ELSE IF ci.review[1].local = <<>> THEN CommitStatusModified
    ELSE IF ci.review[1].local[1].number # ci.review[1].latest.number
         THEN CommitStatusBehind
    ELSE CommitStatusCurrent

(* ---- stack: Load --------------------------------------------------------- *)
AppendNew_Omits(acc, commit) == acc

(* A commit without review trailer: appended as it is, without review.      *)
AppendNew(acc, commit) ==
    [acc EXCEPT !.s = Append(@, [commit |-> commit, full |-> TRUE, review |-> <<>>])]

WalkEnds_Never(localN) == FALSE

(* The walk ends at a commit that is the head of a revision of its review.  *)
WalkEnds(localN) == localN # <<>>

RECURSIVE LocalWalk(_, _, _, _, _, _)
(* The loop of Load over first parents, from commit down to base.           *)
(* acc is [s, visited, localParent, latestParent, queries, err].            *)
LocalWalk(g, objs, rv, base, commit, acc) ==
    IF commit = base THEN acc
    ELSE IF Len(g[commit].parents) = 0
         THEN [acc EXCEPT !.err = "panic: index out of range"]
    ELSE IF g[commit].parents[1] \notin objs
         THEN [acc EXCEPT !.err = "object not found"]
    ELSE
      LET nextCommit == g[commit].parents[1]
          reviewID == readReviewIDFromCommitMessage(g, commit)
      IN IF reviewID = <<>>
         THEN LocalWalk(g, objs, rv, base, nextCommit, AppendNew(acc, commit))
         ELSE
           LET id == reviewID[1]
               asked == Append(acc.queries, <<"review", id, commit>>)
           IN IF id \notin DOMAIN rv
              THEN [acc EXCEPT !.queries = asked, !.err = "review query failed"]
              ELSE
                LET latest == Len(rv[id].revs)
                    localN == LocalRevisionNumber(rv, id, commit)
                    ci == [commit |-> commit, full |-> TRUE,
                           review |-> <<[id |-> id,
                               status |-> rv[id].status,
                               headBranch |-> rv[id].headBranch,
                               latest |-> Revision(rv, id, latest),
                               local |-> IF localN = <<>> THEN <<>>
                                         ELSE <<Revision(rv, id, localN[1])>>]>>]
                    acc2 == [acc EXCEPT
                               !.s = Append(@, ci),
                               !.visited = @ \cup {id},
                               !.queries = asked,
                               !.latestParent = rv[id].revs[latest].parent,
                               !.localParent = IF localN = <<>> THEN @
                                               ELSE rv[id].revs[localN[1]].parent]
                IN IF WalkEnds(localN) THEN acc2
                   ELSE LocalWalk(g, objs, rv, base, nextCommit, acc2)

(* An object the store holds but cannot read back (a damaged object file). *)
Unreadable(h) == <<"damaged", h>>

LinkedCommit_FailsWhenMissing(objs, hash) ==
    IF hash \in objs THEN [err |-> "", commit |-> hash, full |-> TRUE]
    ELSE [err |-> "object not found", commit |-> hash, full |-> FALSE]

(* repo.CommitObject(headCommitHash) in the linked-revision loop: the       *)
(* commit, a fabricated commit that has only the hash when the object is    *)
(* not found, or the error of any other failure.                            *)
LinkedCommit(objs, hash) ==
    IF hash \in objs THEN [err |-> "", commit |-> hash, full |-> TRUE]
    ELSE IF Unreadable(hash) \in objs
    THEN [err |-> "object lookup failed", commit |-> hash, full |-> FALSE]
    ELSE [err |-> "", commit |-> hash, full |-> FALSE]

LinkedEntry_LatestIsLinked(rv, lr, found) ==
    [commit |-> found.commit, full |-> found.full,
     review |-> <<[id |-> lr[1],
                   status |-> rv[lr[1]].status,
                   headBranch |-> rv[lr[1]].headBranch,
                   latest |-> Revision(rv, lr[1], lr[2]),
                   local |-> <<Revision(rv, lr[1], lr[2])>>]>>]

(* The CommitInfo appended for the linked revision lr = <<review, number>>. *)
LinkedEntry(rv, lr, found) ==
    [commit |-> found.commit, full |-> found.full,
     review |-> <<[id |-> lr[1],
                   status |-> rv[lr[1]].status,
                   headBranch |-> rv[lr[1]].headBranch,
                   latest |-> LatestRevision(rv, lr[1]),
                   local |-> <<Revision(rv, lr[1], lr[2])>>]>>]

AppendLinked_SkipsAll(objs, rv, linked, visited, st) == [s |-> st, err |-> ""]

RECURSIVE AppendLinked(_, _, _, _, _)
(* The loop over linkedRevisions, from its last element to its first:       *)
(* [s, err].                                                                 *)
AppendLinked(objs, rv, linked, visited, st) ==
    IF linked = <<>> THEN [s |-> st, err |-> ""]
    ELSE
      LET lr == Last(linked)
          rest == SubSeq(linked, 1, Len(linked) - 1)
          found == LinkedCommit(objs, Revision(rv, lr[1], lr[2]).head)
      IN IF lr[1] \in visited THEN AppendLinked(objs, rv, rest, visited, st)
         ELSE IF found.err # "" THEN [s |-> <<>>, err |-> found.err]
         ELSE AppendLinked(objs, rv, rest, visited,
                           Append(st, LinkedEntry(rv, lr, found)))

StartRevision_RecordedParent(rv, w) ==
    IF w.localParent = <<>> /\ w.latestParent # <<>>
    THEN [start |-> w.latestParent,
          queries |-> Append(w.queries, <<"latest", w.latestParent[1]>>)]
    ELSE [start |-> w.localParent, queries |-> w.queries]

(* The starting point for the linked revisions after the walk w: the parent *)
(* of the local revision, else the latest revision of the review that the   *)
(* last latest revision names as parent. [start, queries]: start is <<>> or *)
(* <<review, number>>.                                                       *)
StartRevision(rv, w) ==
    IF w.localParent = <<>> /\ w.latestParent # <<>>
    THEN [start |-> <<w.latestParent[1], Len(rv[w.latestParent[1]].revs)>>,
          queries |-> Append(w.queries, <<"latest", w.latestParent[1]>>)]
    ELSE [start |-> w.localParent, queries |-> w.queries]

LoadBase_FirstOfSeveral(g, objs, rrefs, headCommit, defaultBranch) ==
    IF defaultBranch \notin DOMAIN rrefs
    THEN [err |-> "reference not found", base |-> <<>>]
    ELSE IF rrefs[defaultBranch] \notin objs
    THEN [err |-> "object not found", base |-> <<>>]
    ELSE
      LET baseCommits == MergeBase(g, headCommit, rrefs[defaultBranch])
      IN IF baseCommits = {}
         THEN [err |-> "cannot find a unique merge base", base |-> <<>>]
         ELSE [err |-> "", base |-> <<CHOOSE c \in baseCommits : TRUE>>]

(* The head of Load: the default branch's remote-tracking reference, its    *)
(* commit, and the merge base with headCommit. [err, base]: base is <<c>>   *)
(* when err = "".                                                            *)
LoadBase(g, objs, rrefs, headCommit, defaultBranch) ==
    IF defaultBranch \notin DOMAIN rrefs
    THEN [err |-> "reference not found", base |-> <<>>]
    ELSE IF rrefs[defaultBranch] \notin objs
    THEN [err |-> "object not found", base |-> <<>>]
    ELSE
      LET baseCommits == MergeBase(g, headCommit, rrefs[defaultBranch])
      IN IF Cardinality(baseCommits) # 1
         THEN [err |-> "cannot find a unique merge base", base |-> <<>>]
         ELSE [err |-> "", base |-> <<CHOOSE c \in baseCommits : TRUE>>]

(* Load(repo, graphqlClient, headCommit, defaultBranch): [err, s, queries]; *)
(* err = "" on success.                                                     *)
Load(g, objs, rrefs, rv, headCommit, defaultBranch) ==
    LET fail(e, q) == [err |-> e, s |-> <<>>, queries |-> q]
        found == LoadBase(g, objs, rrefs, headCommit, defaultBranch)
    IN
    IF found.err # "" THEN fail(found.err, <<>>)
    ELSE
      LET baseCommit == found.base[1]
          w == LocalWalk(g, objs, rv, baseCommit, headCommit,
                   [s |-> <<>>, visited |-> {}, localParent |-> <<>>,
                    latestParent |-> <<>>, queries |-> <<>>, err |-> ""])
      IN IF w.err # "" THEN fail(w.err, w.queries)
         ELSE
           LET from == StartRevision(rv, w)
               asked == Append(from.queries,
                               <<"linkedRevisions", from.start[1], from.start[2]>>)
               linked == AppendLinked(objs, rv,
                             LinkedRevisions(rv, from.start[1], from.start[2]),
                             w.visited, w.s)
           IN IF from.start = <<>>
              THEN [err |-> "", s |-> w.s, queries |-> from.queries]
              ELSE IF linked.err # "" THEN fail(linked.err, asked)
              ELSE [err |-> "", s |-> linked.s, queries |-> asked]

(* ---- generated histories ------------------------------------------------- *)
(* A history of n commits above trunk is described by one kind per position: *)
(* the review's status (st, "none" without a trailer) and how the service's  *)
(* revisions relate to the local commit (sy): "cur" (the only revision has   *)
(* the local commit as head), "beh" (a later revision with head U(p) exists),*)
(* "mod" (no revision has the local commit as head), "new" (no review).      *)
SyncedKinds ==
    {[st |-> st, sy |-> sy] : st \in {ReviewStatusOpen, ReviewStatusMerged},
                              sy \in {"cur", "beh"}}
    \cup {[st |-> ReviewStatusDeleted, sy |-> "cur"]}

NewKind == [st |-> "none", sy |-> "new"]

UnsyncedKinds ==
    {NewKind, [st |-> ReviewStatusOpen, sy |-> "mod"],
     [st |-> ReviewStatusMerged, sy |-> "mod"]}

(* Published commits first (nearest trunk), then one first unpublished or    *)
(* locally modified commit, then new commits on top.                         *)
Histories ==
    UNION {{k \in [1..n -> SyncedKinds \cup UnsyncedKinds] :
              \E m \in 0..n :
                  /\ \A p \in 1..m : k[p] \in SyncedKinds
                  /\ m < n => k[m + 1] \in UnsyncedKinds
                  /\ \A p \in (m + 2)..n : k[p] = NewKind}
           : n \in 0..MaxStack}

Below(p) == IF p = 1 THEN T ELSE L(p - 1)

GraphOf(k) ==
    [h \in Hash |->
        IF h = T THEN [parents |-> <<>>, review |-> <<>>]
        ELSE IF h[1] = "L"
             THEN [parents |-> <<Below(h[2])>>,
                   review |-> IF h[2] \in DOMAIN k /\ k[h[2]].st # "none"
                              THEN <<h[2]>> ELSE <<>>]
        ELSE [parents |-> <<IF h[2] = 1 THEN T ELSE U(h[2] - 1)>>,
              review |-> <<h[2]>>]]

RevsOf(k, p) ==
    LET base == IF p = 1 \/ k[p].st = ReviewStatusMerged
                THEN MainBranch ELSE ReviewBranch(p - 1)
        lenBelow == IF p = 1 THEN 0 ELSE IF k[p - 1].sy = "beh" THEN 2 ELSE 1
        first == [head |-> L(p), baseBranch |-> base,
                  parent |-> IF p = 1 THEN <<>> ELSE <<p - 1, 1>>]
        later == [head |-> U(p), baseBranch |-> base,
                  parent |-> IF p = 1 THEN <<>> ELSE <<p - 1, lenBelow>>]
    IN CASE k[p].sy = "cur" -> <<first>>
         [] k[p].sy = "beh" -> <<first, later>>
         [] OTHER -> <<later>>

ReviewsOf(k) ==
    [p \in {q \in DOMAIN k : k[q].st # "none"} |->
        [status |-> k[p].st, headBranch |-> ReviewBranch(p), revs |-> RevsOf(k, p)]]

TipOf(k) == IF Len(k) = 0 THEN T ELSE L(Len(k))

OriginOf(k) ==
    LET rv == ReviewsOf(k)
        merged == {p \in DOMAIN rv : rv[p].status = ReviewStatusMerged
                                       /\ Last(rv[p].revs).head = U(p)}
        main == IF merged = {} THEN T
                ELSE U(CHOOSE p \in merged : \A q \in merged : q <= p)
    IN [b \in {MainBranch} \cup {ReviewBranch(p) : p \in DOMAIN rv} |->
            IF b = MainBranch THEN main ELSE Last(rv[b[2]].revs).head]

Heads(k) ==
    {<<"branch", WorkBranch>>, <<"branch", MainBranch>>, <<"hash", TipOf(k)>>}
    \cup {<<"branch", ReviewBranch(p)>> : p \in DOMAIN ReviewsOf(k)}

HeadHash == IF HEAD[1] = "branch" THEN refs[HEAD[2]] ELSE HEAD[2]

(* isCleanWorktree: git status compares the index and the files with HEAD. *)
isCleanWorktree == ~worktree.edits /\ worktree.tree = HeadHash

SyncPrecheck_NoBranchCheck ==
    IF ~isCleanWorktree THEN "index is not clean" ELSE ""

SyncPrecheck_NoCleanCheck ==
    IF HEAD[1] # "branch" THEN "HEAD is not a branch" ELSE ""

(* What Sync checks before it loads the stack: the error it returns, or "". *)
SyncPrecheck ==
    IF ~isCleanWorktree THEN "index is not clean"
    ELSE IF HEAD[1] # "branch" THEN "HEAD is not a branch"
    ELSE ""

Snapshot ==
    [refs |-> refs, remoteRefs |-> remoteRefs, worktree |-> worktree,
     reviews |-> reviews, origin |-> origin, headHash |-> HeadHash,
     first |-> entry.first]

Running == [kind |-> "running", target |-> <<>>, count |-> 0]
Returned(kind) == [kind |-> kind, target |-> <<>>, count |-> 0]

(* The error of a call that failed, returned as it is: target is the call.  *)
CallFailed(call) == [kind |-> "call failed", target |-> call, count |-> 0]

Init ==
    \E k \in Histories : \E hd \in Heads(k) : \E clean \in BOOLEAN :
        /\ (~clean => hd \in {<<"branch", WorkBranch>>, <<"hash", TipOf(k)>>})
        /\ graph = GraphOf(k)
        /\ objects = {T} \cup {L(p) : p \in DOMAIN k}
        /\ HEAD = hd
        /\ refs = IF hd[1] = "branch"
                  THEN (hd[2] :> TipOf(k)) @@ (MainBranch :> T)
                  ELSE (MainBranch :> T)
        /\ remoteRefs = (MainBranch :> T)
        /\ origin = OriginOf(k)
        /\ worktree = [edits |-> ~clean, tree |-> TipOf(k)]
        /\ reviews = ReviewsOf(k)
        /\ pc = "idle"
        /\ run = 1
        /\ s = <<>>
        /\ i = 0
        /\ newBase = <<>>
        /\ newHeadRef = <<>>
        /\ headRefName = <<>>
        /\ ret = Running
        /\ log = <<>>
        /\ render = NoGraph
        /\ items = <<>>
        /\ sort = NoSort
        /\ walk = NoWalk
        /\ entry = [refs |-> refs, remoteRefs |-> remoteRefs, worktree |-> worktree,
                    reviews |-> reviews, origin |-> origin,
                    headHash |-> TipOf(k), first |-> Running]

(* ---- actions: pullBranch -------------------------------------------------- *)
(* The repository fields Sync's loop works on, as one record.                *)
Repo == [refs |-> refs, remoteRefs |-> remoteRefs, objects |-> objects,
         origin |-> origin, reviews |-> reviews, log |-> log,
         newBase |-> newBase, newHeadRef |-> newHeadRef, ctl |-> "continue",
         err |-> <<>>]

(* What the remote and the local reference store may answer during one     *)
(* pass of the loop: all calls succeed, the fetch fails, the read of the    *)
(* remote-tracking reference fails, the write of the local branch fails, or *)
(* Sync's own read of the head branch after the pull fails.                 *)
PullAnswers ==
    {"ok", "fetch fails", "reference fails", "set fails", "head reference fails"}

(* A call that returned an error: ctl = "error", err names the call.         *)
Failed(r, call) == [r EXCEPT !.log = Append(@, call), !.ctl = "error", !.err = call]

pullBranch_RetriesFetch(r, name, pull) ==
    IF pull = "fetch fails" \/ name \notin DOMAIN r.origin
    THEN Failed(Failed(r, <<"fetch", name>>), <<"fetch", name>>)
    ELSE LET h == r.origin[name]
         IN [r EXCEPT
                !.remoteRefs = (name :> h) @@ @,
                !.objects = @ \cup Ancestors(graph, h),
                !.refs = (name :> h) @@ @,
                !.log = @ \o << <<"fetch", name>>, <<"setref", name, h>> >>]

(* pullBranch(name): fetch +refs/heads/name:refs/remotes/origin/name, read   *)
(* the remote-tracking reference, then set the local branch name to its      *)
(* hash. pull is the answer drawn from PullAnswers.                          *)
pullBranch(r, name, pull) ==
    IF pull = "fetch fails" \/ name \notin DOMAIN r.origin
    THEN Failed(r, <<"fetch", name>>)
    ELSE LET h == r.origin[name]
             fetched == [r EXCEPT
                           !.remoteRefs = (name :> h) @@ @,
                           !.objects = @ \cup Ancestors(graph, h),
                           !.log = Append(@, <<"fetch", name>>)]
         IN IF pull = "reference fails"
            THEN Failed(fetched, <<"reference", <<"origin", name>>>>)
            ELSE IF pull = "set fails"
            THEN Failed(fetched, <<"setref", name, h>>)
            ELSE [fetched EXCEPT
                    !.refs = (name :> h) @@ @,
                    !.log = Append(@, <<"setref", name, h>>)]

(* The service's syncReviewWithParent(reviewID). resp = "same": the latest   *)
(* revision stands; resp = "new": the service records a further revision     *)
(* whose head is U(id), and (pushed) the review's branch on the remote       *)
(* moves to it.                                                              *)
CanRevise(rv, id) == \A n \in 1..Len(rv[id].revs) : rv[id].revs[n].head # U(id)

syncReviewWithParent(r, id, resp, pushed) ==
    LET rv == r.reviews
        old == Last(rv[id].revs)
        par == IF old.parent = <<>> THEN <<>>
               ELSE <<old.parent[1], Len(rv[old.parent[1]].revs)>>
        called == Append(r.log, <<"sync", id>>)
    IN IF resp = "new" /\ CanRevise(rv, id)
       THEN [r EXCEPT
               !.log = called,
               !.reviews = [rv EXCEPT ![id].revs =
                   Append(@, [head |-> U(id), baseBranch |-> old.baseBranch,
                              parent |-> par])],
               !.origin = IF pushed THEN (rv[id].headBranch :> U(id)) @@ @ ELSE @]
       ELSE [r EXCEPT !.log = called]

(* ---- actions: Sync -------------------------------------------------------- *)
(* The results below carry ctl: "continue", "break", "error" (a failed      *)
(* call), "conflict" or "wrong hash".                                        *)

SyncMerged_StopsAtMerged(r, ci, pull) ==
    LET review == ci.review[1]
        pulled == pullBranch(r, review.latest.baseBranch, pull)
    IN IF Status(ci) = CommitStatusCurrent THEN r
       ELSE IF pulled.ctl = "error" THEN pulled
       ELSE [pulled EXCEPT !.newBase = <<"sha", review.latest.head>>,
                           !.ctl = "break"]

(* The loop body for an entry whose review is Merged.                        *)
SyncMerged(r, ci, pull) ==
    LET review == ci.review[1]
        status == Status(ci)
    IN IF status = CommitStatusCurrent THEN r
       ELSE IF status # CommitStatusBehind THEN [r EXCEPT !.ctl = "conflict"]
       ELSE LET pulled == pullBranch(r, review.latest.baseBranch, pull)
            IN IF pulled.ctl = "error" THEN pulled
               ELSE [pulled EXCEPT !.newBase = <<"sha", review.latest.head>>]

SyncOpen_AlwaysPulls(r, ci, resp, pull, pushed) ==
    LET review == ci.review[1]
        synced == syncReviewWithParent(r, review.id, resp, pushed)
        pulled == pullBranch(synced, review.headBranch, pull)
    IN IF resp = "fail" THEN Failed(r, <<"sync", review.id>>)
       ELSE IF pulled.ctl = "error" THEN pulled
       ELSE [pulled EXCEPT !.newHeadRef = <<pulled.refs[review.headBranch]>>,
                           !.newBase = <<"branch", review.headBranch>>]

(* The loop body for an entry whose review is neither Deleted nor Merged:   *)
(* the syncReviewWithParent mutation and what follows it.                    *)
SyncOpen(r, ci, resp, pull, pushed) ==
    LET review == ci.review[1] IN
    IF resp = "fail" THEN Failed(r, <<"sync", review.id>>)
    ELSE
      LET synced == syncReviewWithParent(r, review.id, resp, pushed)
          updatedLatestRevision == LatestRevision(synced.reviews, review.id)
      IN IF updatedLatestRevision.head = ci.commit THEN synced
         ELSE
           LET pulled == pullBranch(synced, review.headBranch, pull)
           IN IF pulled.ctl = "error" THEN pulled
              ELSE IF pull = "head reference fails"
              THEN Failed(pulled, <<"reference", review.headBranch>>)
              ELSE IF pulled.refs[review.headBranch] # updatedLatestRevision.head
              THEN [pulled EXCEPT
                      !.newHeadRef = <<pulled.refs[review.headBranch]>>,
                      !.ctl = "wrong hash"]
              ELSE [pulled EXCEPT
                      !.newHeadRef = <<pulled.refs[review.headBranch]>>,
                      !.newBase = <<"branch", review.headBranch>>]

(* One iteration of Sync's loop over s[i].                                   *)
SyncBody(r, ci, resp, pull, pushed) ==
    LET status == Status(ci) IN
    IF status = CommitStatusNew \/ status = CommitStatusModified
    THEN [r EXCEPT !.ctl = "break"]
    ELSE IF ci.review[1].status = ReviewStatusDeleted THEN r
    ELSE IF ci.review[1].status = ReviewStatusMerged
    THEN SyncMerged(r, ci, pull)
    ELSE SyncOpen(r, ci, resp, pull, pushed)

(* What the service may answer to syncReviewWithParent. In a second run    *)
(* with no remote change in between, it has nothing further to record.      *)
Answers == IF run = 1 THEN {"fail", "same", "new"} ELSE {"fail", "same"}

(* Sync up to the loop: the clean check, HEAD, Load.                         *)
SyncEnter ==
    /\ pc = "idle"
    /\ entry' = Snapshot
    /\ UNCHANGED <<graph, repoVars, run, newBase, newHeadRef, renderVars, switchVars>>
    /\ IF SyncPrecheck # ""
       THEN /\ ret' = Returned(SyncPrecheck)
            /\ log' = IF SyncPrecheck = "index is not clean"
                      THEN << <<"status">> >>
                      ELSE << <<"status">>, <<"head">> >>
            /\ pc' = "done"
            /\ UNCHANGED <<s, i, headRefName>>
       ELSE
         LET loaded == Load(graph, objects, remoteRefs, reviews, HeadHash, MainBranch)
         IN /\ headRefName' = HEAD[2]
            /\ log' = << <<"status">>, <<"head">> >> \o loaded.queries
            /\ s' = loaded.s
            /\ i' = Len(loaded.s)
            /\ IF loaded.err # ""
               THEN ret' = Returned(loaded.err) /\ pc' = "done"
               ELSE IF Len(loaded.s) = 0
               THEN ret' = Returned("ok") /\ pc' = "done"
               ELSE ret' = ret /\ pc' = "loop"

(* One pass through the loop body, with the answers of the service and of   *)
(* the remote drawn here.                                                    *)
SyncIterate ==
    /\ pc = "loop"
    /\ \E resp \in Answers : \E pull \in PullAnswers :
       \E pushed \in BOOLEAN :
         LET r == SyncBody(Repo, s[i], resp, pull, pushed)
         IN /\ refs' = r.refs
            /\ remoteRefs' = r.remoteRefs
            /\ objects' = r.objects
            /\ origin' = r.origin
            /\ reviews' = r.reviews
            /\ log' = r.log
            /\ newBase' = r.newBase
            /\ newHeadRef' = r.newHeadRef
            /\ i' = IF r.ctl = "continue" THEN i - 1 ELSE i
            /\ pc' = CASE r.ctl = "continue" -> IF i = 1 THEN "post" ELSE "loop"
                       [] r.ctl = "break" -> "post"
                       [] OTHER -> "done"
            /\ ret' = CASE r.ctl = "error" -> CallFailed(r.err)
                        [] r.ctl = "conflict" ->
                             Returned("merged review has local modifications")
                        [] r.ctl = "wrong hash" -> Returned("branch had wrong hash")
                        [] OTHER -> ret
    /\ UNCHANGED <<graph, HEAD, worktree, run, s, headRefName, entry, renderVars, switchVars>>

SyncTail_RepointsFirst(outcome) ==
    IF newHeadRef # <<>>
    THEN [ret |-> Returned("ok"),
          refs |-> (headRefName :> newHeadRef[1]) @@ refs,
          worktree |-> [edits |-> FALSE, tree |-> newHeadRef[1]],
          log |-> log \o << <<"setref", headRefName, newHeadRef[1]>>,
                            <<"reset", newHeadRef[1]>> >>]
    ELSE IF i >= 1 /\ newBase # <<>>
    THEN [ret |-> [kind |-> "some commits are ahead", target |-> newBase, count |-> i],
          refs |-> refs, worktree |-> worktree, log |-> log]
    ELSE [ret |-> Returned("ok"), refs |-> refs, worktree |-> worktree, log |-> log]

SyncTail_CountExcludesStop(outcome) ==
    IF i >= 1 /\ newBase # <<>>
    THEN [ret |-> [kind |-> "some commits are ahead", target |-> newBase,
                   count |-> i - 1],
          refs |-> refs, worktree |-> worktree, log |-> log]
    ELSE IF newHeadRef # <<>> /\ outcome = "set fails"
    THEN [ret |-> CallFailed(<<"setref", headRefName, newHeadRef[1]>>),
          refs |-> refs, worktree |-> worktree,
          log |-> Append(log, <<"setref", headRefName, newHeadRef[1]>>)]
    ELSE IF newHeadRef # <<>> /\ outcome = "reset fails"
    THEN [ret |-> CallFailed(<<"reset", newHeadRef[1]>>),
          refs |-> (headRefName :> newHeadRef[1]) @@ refs,
          worktree |-> worktree,
          log |-> log \o << <<"setref", headRefName, newHeadRef[1]>>,
                            <<"reset", newHeadRef[1]>> >>]
    ELSE IF newHeadRef # <<>>
    THEN [ret |-> Returned("ok"),
          refs |-> (headRefName :> newHeadRef[1]) @@ refs,
          worktree |-> [edits |-> FALSE, tree |-> newHeadRef[1]],
          log |-> log \o << <<"setref", headRefName, newHeadRef[1]>>,
                            <<"reset", newHeadRef[1]>> >>]
    ELSE [ret |-> Returned("ok"), refs |-> refs, worktree |-> worktree, log |-> log]

(* What the reference store and the working tree may answer to the repoint. *)
TailAnswers == {"ok", "set fails", "reset fails"}

(* What follows the loop: the rebase directive, or the repoint and reset.   *)
(* i here is the loop index counted from 1, the source's i + 1.              *)
SyncTail(outcome) ==
    IF i >= 1 /\ newBase # <<>>
    THEN [ret |-> [kind |-> "some commits are ahead", target |-> newBase, count |-> i],
          refs |-> refs, worktree |-> worktree, log |-> log]
    ELSE IF newHeadRef # <<>> /\ outcome = "set fails"
    THEN [ret |-> CallFailed(<<"setref", headRefName, newHeadRef[1]>>),
          refs |-> refs, worktree |-> worktree,
          log |-> Append(log, <<"setref", headRefName, newHeadRef[1]>>)]
    ELSE IF newHeadRef # <<>> /\ outcome = "reset fails"
    THEN [ret |-> CallFailed(<<"reset", newHeadRef[1]>>),
          refs |-> (headRefName :> newHeadRef[1]) @@ refs,
          worktree |-> worktree,
          log |-> log \o << <<"setref", headRefName, newHeadRef[1]>>,
                            <<"reset", newHeadRef[1]>> >>]
    ELSE IF newHeadRef # <<>>
    THEN [ret |-> Returned("ok"),
          refs |-> (headRefName :> newHeadRef[1]) @@ refs,
          worktree |-> [edits |-> FALSE, tree |-> newHeadRef[1]],
          log |-> log \o << <<"setref", headRefName, newHeadRef[1]>>,
                            <<"reset", newHeadRef[1]>> >>]
    ELSE [ret |-> Returned("ok"), refs |-> refs, worktree |-> worktree, log |-> log]

SyncFinish ==
    /\ pc = "post"
    /\ \E outcome \in TailAnswers :
          /\ ret' = SyncTail(outcome).ret
          /\ refs' = SyncTail(outcome).refs
          /\ worktree' = SyncTail(outcome).worktree
          /\ log' = SyncTail(outcome).log
    /\ pc' = "done"
    /\ UNCHANGED <<graph, objects, remoteRefs, origin, HEAD, reviews, run, s, i,
                   newBase, newHeadRef, headRefName, entry, renderVars, switchVars>>

Next == SyncEnter \/ SyncIterate \/ SyncFinish

Spec == Init /\ [][Next]_vars

(* ---- a second run of Sync on the repository the first run left ---------- *)
(* The command is invoked again; the remote and the service are as the      *)
(* first run left them.                                                      *)
SyncAgain ==
    /\ pc = "done"
    /\ run = 1
    /\ run' = 2
    /\ pc' = "idle"
    /\ s' = <<>>
    /\ i' = 0
    /\ newBase' = <<>>
    /\ newHeadRef' = <<>>
    /\ headRefName' = <<>>
    /\ ret' = Running
    /\ log' = <<>>
    /\ entry' = [Snapshot EXCEPT !.first = ret]
    /\ UNCHANGED <<graph, repoVars, renderVars, switchVars>>

NextTwice == Next \/ SyncAgain

SpecTwice == Init /\ [][NextTwice]_vars
(* ---- Load on its own, over arbitrary small commit graphs ----------------- *)
DagNodes == {T} \cup {L(p) : p \in 1..(MaxNodes - 1)}

Lower(h) == IF h = T THEN {} ELSE {T} \cup {L(q) : q \in 1..(h[2] - 1)}

ParentLists(h) ==
    {<<>>} \cup {<<a>> : a \in Lower(h)}
    \cup {ab \in Lower(h) \X Lower(h) : ab[1] # ab[2]}

(* Every acyclic parent assignment with at most two parents per commit,     *)
(* over T and L(1)..L(n).                                                    *)
RECURSIVE DagsUpTo(_)
DagsUpTo(n) ==
    IF n = 0 THEN {(T :> <<>>)}
    ELSE {(L(n) :> pl) @@ g : g \in DagsUpTo(n - 1), pl \in ParentLists(L(n))}

Dags == DagsUpTo(MaxNodes - 1)

DagGraph(g, trailers) ==
    [h \in DagNodes |->
        [parents |-> g[h],
         review |-> IF h # T /\ trailers # "none" THEN <<h[2]>> ELSE <<>>]]

DagReviews(trailers) ==
    [p \in (IF trailers = "none" THEN {} ELSE 1..(MaxNodes - 1)) |->
        [status |-> ReviewStatusOpen, headBranch |-> ReviewBranch(p),
         revs |-> <<[head |-> IF trailers = "cur" THEN L(p) ELSE U(p),
                     baseBranch |-> MainBranch, parent |-> <<>>]>>]]

InitLoad ==
    \E g \in Dags : \E hd \in DagNodes : \E tip \in DagNodes :
    \E trailers \in {"none", "cur", "mod"} :
        /\ graph = DagGraph(g, trailers)
        /\ objects = DagNodes
        /\ HEAD = <<"hash", hd>>
        /\ refs = (MainBranch :> tip)
        /\ remoteRefs = (MainBranch :> tip)
        /\ origin = (MainBranch :> tip)
        /\ worktree = [edits |-> FALSE, tree |-> hd]
        /\ reviews = DagReviews(trailers)
        /\ pc = "load"
        /\ run = 1
        /\ s = <<>>
        /\ i = 0
        /\ newBase = <<>>
        /\ newHeadRef = <<>>
        /\ headRefName = <<>>
        /\ ret = Running
        /\ log = <<>>
        /\ render = NoGraph
        /\ items = <<>>
        /\ sort = NoSort
        /\ walk = NoWalk
        /\ entry = [refs |-> refs, remoteRefs |-> remoteRefs, worktree |-> worktree,
                    reviews |-> reviews, origin |-> origin,
                    headHash |-> hd, first |-> Running]

(* stack.Load(ctx, repo, graphqlClient, headCommit, defaultBranch) *)
LoadCall ==
    /\ pc = "load"
    /\ LET loaded == Load(graph, objects, remoteRefs, reviews, HeadHash, MainBranch)
       IN /\ s' = loaded.s
          /\ ret' = Returned(IF loaded.err = "" THEN "ok" ELSE loaded.err)
          /\ log' = loaded.queries
    /\ pc' = "loaded"
    /\ UNCHANGED <<graph, repoVars, run, i, newBase, newHeadRef, headRefName, entry,
                   renderVars, switchVars>>

SpecLoad == InitLoad /\ [][LoadCall]_vars

(* ---- Load on its own, over stacks of reviewed commits --------------------- *)
(* The histories Sync is run on, with three more things that happen: HEAD   *)
(* anywhere on the chain (also behind the trunk tip); the trunk advanced by *)
(* fast-forward over the lowest merged reviews, so that their commits are   *)
(* on trunk; and a commit carrying the trailer of the review below it (a    *)
(* commit split or copied with its message).                                *)
At(p) == IF p = 0 THEN T ELSE L(p)

TrunkTips(k) ==
    {t \in 0..Len(k) :
        \A p \in 1..t : k[p] = [st |-> ReviewStatusMerged, sy |-> "cur"]}

Copies(k) == {0} \cup {d \in 2..Len(k) : k[d - 1].st # "none"}

CopiedGraph(k, d) ==
    IF d = 0 THEN GraphOf(k) ELSE [GraphOf(k) EXCEPT ![L(d)].review = <<d - 1>>]

MaxRevs == 2

(* A review whose local revision is its only one may have had an earlier    *)
(* revision with another head, which the local store does not have: review  *)
(* o gets such a first revision, and its local one becomes the second.      *)
Olds(k) == {0} \cup {p \in DOMAIN k : k[p].st # "none" /\ k[p].sy = "cur"}

Aged(rv, o) ==
    IF o = 0 THEN rv
    ELSE [rv EXCEPT ![o].revs = <<[@[1] EXCEPT !.head = U(o)]>> \o @]

(* A revision may record as parent any revision of a review nearer the trunk, *)
(* or none: the edit <<<<p, n>>, parent>> rewrites what revision n of review p    *)
(* records, <<>> leaves the history as it was generated.                      *)
ParentEdits(rv) ==
    LET Revs == {r \in (DOMAIN rv) \X (1..MaxRevs) : r[2] <= Len(rv[r[1]].revs)}
    IN {<<>>} \cup
       {e \in Revs \X ({<<>>} \cup Revs) :
           e[2] # <<>> => e[2][1] < e[1][1]}

Reparented(rv, e) ==
    IF e = <<>> THEN rv ELSE [rv EXCEPT ![e[1][1]].revs[e[1][2]].parent = e[2]]

(* The pushed heads the local store does not have, one of which it may hold  *)
(* as a damaged object.                                                       *)
Damages(k) ==
    {{}} \cup {{Unreadable(U(p))} : p \in {q \in DOMAIN k : k[q].st # "none"}}

InitLoadStack ==
    \E k \in Histories : \E h \in 0..Len(k) : \E t \in TrunkTips(k) :
    \E d \in Copies(k) : \E o \in Olds(k) :
    \E e \in ParentEdits(Aged(ReviewsOf(k), o)) : \E dmg \in Damages(k) :
        /\ graph = CopiedGraph(k, d)
        /\ objects = {T} \cup {L(p) : p \in DOMAIN k} \cup dmg
        /\ HEAD = <<"hash", At(h)>>
        /\ refs = (MainBranch :> At(t))
        /\ remoteRefs = (MainBranch :> At(t))
        /\ origin = (MainBranch :> At(t)) @@ OriginOf(k)
        /\ worktree = [edits |-> FALSE, tree |-> At(h)]
        /\ reviews = Reparented(Aged(ReviewsOf(k), o), e)
        /\ pc = "load"
        /\ run = 1
        /\ s = <<>>
        /\ i = 0
        /\ newBase = <<>>
        /\ newHeadRef = <<>>
        /\ headRefName = <<>>
        /\ ret = Running
        /\ log = <<>>
        /\ render = NoGraph
        /\ items = <<>>
        /\ sort = NoSort
        /\ walk = NoWalk
        /\ entry = [refs |-> refs, remoteRefs |-> remoteRefs, worktree |-> worktree,
                    reviews |-> reviews, origin |-> origin,
                    headHash |-> At(h), first |-> Running]

SpecLoadStack == InitLoadStack /\ [][LoadCall]_vars

(* ---- CommitInfo.Status on its own ----------------------------------------- *)
StatusRevision(n) ==
    [reviewID |-> 1, number |-> n, baseBranch |-> MainBranch,
     head |-> IF n = 1 THEN L(1) ELSE U(1)]

(* Every combination of review presence, local revision presence and        *)
(* revision numbers up to MaxRevision.                                       *)
StatusInputs ==
    {[commit |-> L(1), full |-> TRUE, review |-> <<>>]}
    \cup {[commit |-> L(1), full |-> TRUE,
           review |-> <<[id |-> 1, status |-> st, headBranch |-> ReviewBranch(1),
                         latest |-> StatusRevision(n), local |-> loc]>>] :
            st \in {ReviewStatusDeleted, ReviewStatusMerged, ReviewStatusOpen},
            n \in 1..MaxRevision,
            loc \in {<<>>} \cup {<<StatusRevision(m)>> : m \in 1..MaxRevision}}

InitStatus ==
    \E ci \in StatusInputs :
        /\ graph = GraphOf(<<>>)
        /\ objects = {T, L(1)}
        /\ HEAD = <<"hash", L(1)>>
        /\ refs = (MainBranch :> T)
        /\ remoteRefs = (MainBranch :> T)
        /\ origin = (MainBranch :> T)
        /\ worktree = [edits |-> FALSE, tree |-> L(1)]
        /\ reviews = ReviewsOf(<<>>)
        /\ pc = "status"
        /\ run = 1
        /\ s = <<ci>>
        /\ i = 1
        /\ newBase = <<>>
        /\ newHeadRef = <<>>
        /\ headRefName = <<>>
        /\ ret = Running
        /\ log = <<>>
        /\ render = NoGraph
        /\ items = <<>>
        /\ sort = NoSort
        /\ walk = NoWalk
        /\ entry = [refs |-> refs, remoteRefs |-> remoteRefs, worktree |-> worktree,
                    reviews |-> reviews, origin |-> origin,
                    headHash |-> L(1), first |-> Running]

(* ci.Status() *)
StatusCall ==
    /\ pc = "status"
    /\ ret' = Returned(Status(s[i]))
    /\ pc' = "classified"
    /\ UNCHANGED <<graph, repoVars, run, s, i, newBase, newHeadRef, headRefName,
                   log, entry, renderVars, switchVars>>

SpecStatus == InitStatus /\ [][StatusCall]_vars

(* ======================= the graph renderer (switch.go) =================== *)
(* Commits of the rendered set are numbered 1..MaxCommits in the order       *)
(* makeSelectItems receives them (children before parents). A parent hash    *)
(* that is not in g.commits is written 0; a nil *object.Commit is 0 too.     *)
graphStatePadding == "Padding"
graphStateSkip == "Skip"
graphStatePreCommit == "PreCommit"
graphStateCommit == "Commit"
graphStatePostMerge == "PostMerge"
graphStateCollapsing == "Collapsing"

(* Go maps with int keys: a key that was never set reads as the zero value. *)
EmptyMap == [k \in {} |-> 0]
Get(m, k) == IF k \in DOMAIN m THEN m[k] ELSE 0
Put(m, k, v) == (k :> v) @@ m

Repeat(c, n) == [k \in 1..n |-> c]

(* Go evaluates an argument or a right-hand side once, before the call or   *)
(* the assignment: F is applied to the value of v.                          *)
Bind(v, F(_)) == CHOOSE r \in {F(x) : x \in {v}} : TRUE

(* newGraph; the commit before the first update has no hash and no parents. *)
(* outfile is what the bufio.Writer holds for the commit being rendered;    *)
(* rows is a history of the nextLine calls for that commit.                 *)
newGraph(commits) ==
    [commits |-> commits, outfile |-> <<>>,
     commit |-> [Hash |-> 0, ParentHashes |-> <<>>],
     buf |-> <<>>, firstParentOnly |-> FALSE,
     numParents |-> 0, width |-> 0, expansionRow |-> 0,
     state |-> graphStatePadding, prevState |-> graphStatePadding,
     commitIndex |-> 0, prevCommitIndex |-> 0,
     numColumns |-> 0, numNewColumns |-> 0, mappingSize |-> 0,
     columns |-> EmptyMap, newColumns |-> EmptyMap,
     mapping |-> EmptyMap, newMapping |-> EmptyMap,
     rows |-> <<>>, panic |-> ""]

updateState(g0, state) ==
    Bind(g0, LAMBDA g : [g EXCEPT !.prevState = g.state, !.state = state])

(* One slot per parent hash; a hash that is not in g.commits leaves its     *)
(* slot nil.                                                                 *)
interestingParents(g) ==
    LET hashes == IF g.firstParentOnly /\ Len(g.commit.ParentHashes) > 1
                  THEN SubSeq(g.commit.ParentHashes, 1, 1)
                  ELSE g.commit.ParentHashes
    IN [j \in 1..Len(hashes) |-> IF hashes[j] \in g.commits THEN hashes[j] ELSE 0]

(* insertIntoNewColumns when each column takes one mapping slot, not two. *)
insertIntoNewColumns_AdvancesByOne(g0, commit, mappingIndex) ==
    LET body(g) ==
          LET found == {j \in 0..(g.numNewColumns - 1) : Get(g.newColumns, j) = commit}
          IN IF found # {}
             THEN [g |-> [g EXCEPT !.mapping = Put(@, mappingIndex,
                                        CHOOSE j \in found : \A m \in found : j <= m)],
                   next |-> mappingIndex + 1]
             ELSE [g |-> [g EXCEPT !.newColumns = Put(@, g.numNewColumns, commit),
                                   !.mapping = Put(@, mappingIndex, g.numNewColumns),
                                   !.numNewColumns = @ + 1],
                   next |-> mappingIndex + 1]
    IN Bind(g0, body)

(* insertIntoNewColumns; next is the mapping index it returns. *)
insertIntoNewColumns(g0, commit, mappingIndex) ==
    LET body(g) ==
          LET found == {j \in 0..(g.numNewColumns - 1) : Get(g.newColumns, j) = commit}
          IN IF found # {}
             THEN [g |-> [g EXCEPT !.mapping = Put(@, mappingIndex,
                                        CHOOSE j \in found : \A m \in found : j <= m)],
                   next |-> mappingIndex + 2]
             ELSE [g |-> [g EXCEPT !.newColumns = Put(@, g.numNewColumns, commit),
                                   !.mapping = Put(@, mappingIndex, g.numNewColumns),
                                   !.numNewColumns = @ + 1],
                   next |-> mappingIndex + 2]
    IN Bind(g0, body)

updateWidth(g0, isCommitInExistingColumns) ==
    LET body(g) ==
          LET maxCols == g.numColumns + g.numParents
                         + (IF g.numParents < 1 THEN 1 ELSE 0)
                         - (IF isCommitInExistingColumns THEN 1 ELSE 0)
          IN [g EXCEPT !.width = maxCols * 2]
    IN Bind(g0, body)

RECURSIVE insertParents(_, _, _, _)
(* The loop of updateColumns over the parents, starting with parents[j];    *)
(* the result carries the advanced mappingIdx.                               *)
insertParents(g, parents, j, mappingIdx) ==
    IF j > Len(parents) THEN [g |-> g, next |-> mappingIdx]
    ELSE Bind(insertIntoNewColumns(g, parents[j], mappingIdx),
              LAMBDA r : insertParents(r.g, parents, j + 1, r.next))

RECURSIVE populateColumns(_, _, _, _)
(* The loop of updateColumns over ix = 0..numColumns. The result carries    *)
(* isCommitInColumns.                                                        *)
populateColumns(g, ix, seenThis, mappingIdx) ==
    IF ix > g.numColumns \/ (ix = g.numColumns /\ seenThis)
    THEN [g |-> g, isCommitInColumns |-> TRUE]
    ELSE
      LET colCommit == IF ix = g.numColumns THEN g.commit.Hash ELSE Get(g.columns, ix)
          thisCommit(r) ==
              LET idx == IF r.next = mappingIdx THEN mappingIdx + 2 ELSE r.next
                  rest == populateColumns(r.g, ix + 1, TRUE, idx)
              IN IF ix = g.numColumns
                 THEN [rest EXCEPT !.isCommitInColumns = FALSE]
                 ELSE rest
      IN IF colCommit = g.commit.Hash
         THEN Bind(insertParents([g EXCEPT !.commitIndex = ix],
                                 interestingParents(g), 1, mappingIdx),
                   thisCommit)
         ELSE Bind(insertIntoNewColumns(g, colCommit, mappingIdx),
                   LAMBDA r : populateColumns(r.g, ix + 1, seenThis, r.next))

RECURSIVE shrinkMapping(_)
shrinkMapping(g) ==
    IF g.mappingSize > 1 /\ Get(g.mapping, g.mappingSize - 1) < 0
    THEN shrinkMapping([g EXCEPT !.mappingSize = @ - 1])
    ELSE g

updateColumns(g0) ==
    LET body(g) ==
          LET size == 2 * (g.numNewColumns + g.numParents)
              swapped == [g EXCEPT !.columns = g.newColumns,
                                   !.newColumns = g.columns,
                                   !.numColumns = g.numNewColumns,
                                   !.numNewColumns = 0,
                                   !.mappingSize = size,
                                   !.mapping = [k \in 0..(size - 1) |-> -1] @@ @]
          IN Bind(populateColumns(swapped, 0, FALSE, 0),
                  LAMBDA filled : updateWidth(shrinkMapping(filled.g),
                                              filled.isCommitInColumns))
    IN Bind(g0, body)

update(g0, commit) ==
    LET counted(g) == [g EXCEPT !.numParents = Len(interestingParents(g)),
                                !.prevCommitIndex = g.commitIndex]
        decide(g) == [g EXCEPT !.expansionRow = 0,
                               !.state =
                                  IF g.state # graphStatePadding THEN graphStateSkip
                                  ELSE IF g.numParents >= 3
                                          /\ g.commitIndex < g.numColumns - 1
                                       THEN graphStatePreCommit
                                  ELSE graphStateCommit]
    IN Bind(updateColumns(Bind([g0 EXCEPT !.commit = commit], counted)), decide)

isMappingCorrect(g) ==
    \A k \in 0..(g.mappingSize - 1) :
        Get(g.mapping, k) < 0 \/ Get(g.mapping, k) = k \div 2

padHorizontally(g0, charsWritten) ==
    LET body(g) == IF charsWritten >= g.width THEN g
                   ELSE [g EXCEPT !.buf = @ \o Repeat(" ", g.width - charsWritten)]
    IN Bind(g0, body)

outputPaddingLine(g0) ==
    LET body(g) ==
          padHorizontally([g EXCEPT !.buf = @ \o [k \in 1..(2 * g.numNewColumns) |->
                                                    IF k % 2 = 1 THEN "|" ELSE " "]],
                          g.numNewColumns * 2)
    IN Bind(g0, body)

outputSkipLine(g0) ==
    LET body(g) ==
          updateState(padHorizontally([g EXCEPT !.buf = @ \o <<".", ".", ".">>], 3),
                      IF g.numParents >= 3 /\ g.commitIndex < g.numColumns - 1
                      THEN graphStatePreCommit ELSE graphStateCommit)
    IN Bind(g0, body)

RECURSIVE preCommitColumns(_, _, _, _)
(* The loop of outputPreCommitLine over the columns.                         *)
preCommitColumns(g0, ix, seenThis, charsWritten) ==
    LET body(g) ==
          IF ix >= g.numColumns THEN [g |-> g, charsWritten |-> charsWritten]
          ELSE IF Get(g.columns, ix) = g.commit.Hash
          THEN preCommitColumns(
                 [g EXCEPT !.buf = @ \o <<"|">> \o Repeat(" ", g.expansionRow) \o <<" ">>],
                 ix + 1, TRUE, charsWritten + 1 + g.expansionRow + 1)
          ELSE LET c == IF seenThis /\ g.expansionRow = 0
                        THEN IF g.prevState = graphStatePostMerge /\ g.prevCommitIndex < ix
                             THEN "\\" ELSE "|"
                        ELSE IF seenThis /\ g.expansionRow > 0 THEN "\\"
                        ELSE "|"
               IN preCommitColumns([g EXCEPT !.buf = @ \o <<c, " ">>],
                                   ix + 1, seenThis, charsWritten + 2)
    IN Bind(g0, body)

outputPreCommitLine_RowPerParent(g0) ==
    LET written(g) ==
          LET grown == [g EXCEPT !.expansionRow = @ + 1]
          IN IF grown.expansionRow >= g.numParents - 2
             THEN updateState(grown, graphStateCommit)
             ELSE grown
        body(g) ==
          IF g.numParents < 3
          THEN [g EXCEPT !.panic = "not enough parents to add expansion row"]
          ELSE IF g.expansionRow < 0 \/ g.expansionRow >= (g.numParents - 2) * 2
          THEN [g EXCEPT !.panic = "wrong number of expansion rows"]
          ELSE Bind(preCommitColumns(g, 0, FALSE, 0),
                    LAMBDA r : Bind(padHorizontally(r.g, r.charsWritten), written))
    IN Bind(g0, body)

outputPreCommitLine(g0) ==
    LET written(g) ==
          LET grown == [g EXCEPT !.expansionRow = @ + 1]
          IN IF grown.expansionRow >= (g.numParents - 2) * 2
             THEN updateState(grown, graphStateCommit)
             ELSE grown
        body(g) ==
          IF g.numParents < 3
          THEN [g EXCEPT !.panic = "not enough parents to add expansion row"]
          ELSE IF g.expansionRow < 0 \/ g.expansionRow >= (g.numParents - 2) * 2
          THEN [g EXCEPT !.panic = "wrong number of expansion rows"]
          ELSE Bind(preCommitColumns(g, 0, FALSE, 0),
                    LAMBDA r : Bind(padHorizontally(r.g, r.charsWritten), written))
    IN Bind(g0, body)

(* drawOctopusMerge without its return value, which is numDashes + 1.       *)
drawOctopusMerge(g0) ==
    LET body(g) == [g EXCEPT !.buf = @ \o Repeat("-", (g.numParents - 2) * 2 - 1)
                                       \o <<".">>]
    IN Bind(g0, body)

RECURSIVE commitColumns(_, _, _, _)
(* The loop of outputCommitLine over ix = 0..numColumns.                     *)
commitColumns(g0, ix, seenThis, charsWritten) ==
    LET body(g) ==
          IF ix > g.numColumns \/ (ix = g.numColumns /\ seenThis)
          THEN [g |-> g, charsWritten |-> charsWritten]
          ELSE
            LET colCommit == IF ix = g.numColumns THEN g.commit.Hash
                             ELSE Get(g.columns, ix)
                marked == [g EXCEPT !.buf = @ \o <<"*">>]
                merged == IF g.numParents > 2 THEN drawOctopusMerge(marked) ELSE marked
                n == IF g.numParents > 2 THEN (g.numParents - 2) * 2 - 1 + 1 ELSE 0
                c == IF seenThis /\ g.numParents > 2 THEN "\\"
                     ELSE IF seenThis /\ g.numParents = 2
                     THEN IF g.prevState = graphStatePostMerge /\ g.prevCommitIndex < ix
                          THEN "\\" ELSE "|"
                     ELSE "|"
            IN IF colCommit = g.commit.Hash
               THEN commitColumns([merged EXCEPT !.buf = @ \o <<" ">>],
                                  ix + 1, TRUE, charsWritten + 1 + n + 1)
               ELSE commitColumns([g EXCEPT !.buf = @ \o <<c, " ">>],
                                  ix + 1, seenThis, charsWritten + 2)
    IN Bind(g0, body)

(* outputCommitLine when every commit is followed by a post-merge row. *)
outputCommitLine_PostMergeForTwo(g0) ==
    LET next(g) == IF g.numParents = 2 THEN updateState(g, graphStatePostMerge)
                   ELSE IF isMappingCorrect(g) THEN updateState(g, graphStatePadding)
                   ELSE updateState(g, graphStateCollapsing)
    IN Bind(commitColumns(g0, 0, FALSE, 0),
            LAMBDA r : Bind(padHorizontally(r.g, r.charsWritten), next))

outputCommitLine_AlwaysPostMerge(g0) ==
    Bind(commitColumns(g0, 0, FALSE, 0),
         LAMBDA r : updateState(padHorizontally(r.g, r.charsWritten),
                                graphStatePostMerge))

outputCommitLine(g0) ==
    LET next(g) == IF g.numParents > 1 THEN updateState(g, graphStatePostMerge)
                   ELSE IF isMappingCorrect(g) THEN updateState(g, graphStatePadding)
                   ELSE updateState(g, graphStateCollapsing)
    IN Bind(commitColumns(g0, 0, FALSE, 0),
            LAMBDA r : Bind(padHorizontally(r.g, r.charsWritten), next))

NilDereference == "invalid memory address or nil pointer dereference"

(* findNewColumnByCommit: "found", "nil" when no column holds the commit,   *)
(* "panic" when the scan reads .Hash through a nil commit first.             *)
findNewColumnByCommit(g, commit) ==
    LET stops == {j \in 0..(g.numNewColumns - 1) :
                    Get(g.newColumns, j) = 0 \/ Get(g.newColumns, j) = commit}
        first == CHOOSE j \in stops : \A m \in stops : j <= m
    IN IF g.numNewColumns = 0 THEN "nil"
       ELSE IF commit = 0 THEN "panic"
       ELSE IF stops = {} THEN "nil"
       ELSE IF Get(g.newColumns, first) = 0 THEN "panic"
       ELSE "found"

RECURSIVE postMergeParents(_, _, _)
(* The loop of outputPostMergeLine over the parents, from parents[j].       *)
postMergeParents(g0, parents, j) ==
    LET body(g) ==
          IF j > Len(parents) THEN g
          ELSE IF findNewColumnByCommit(g, parents[j]) # "found"
          THEN [g EXCEPT !.panic = NilDereference]
          ELSE postMergeParents([g EXCEPT !.buf = @ \o <<"\\", " ">>], parents, j + 1)
    IN Bind(g0, body)

RECURSIVE postMergeColumns(_, _, _, _)
(* The loop of outputPostMergeLine over ix = 0..numColumns.                  *)
postMergeColumns(g0, ix, seenThis, charsWritten) ==
    LET body(g) ==
          IF ix > g.numColumns \/ (ix = g.numColumns /\ seenThis)
          THEN [g |-> g, charsWritten |-> charsWritten]
          ELSE
            LET colCommit == IF ix = g.numColumns THEN g.commit.Hash
                             ELSE Get(g.columns, ix)
                parents == interestingParents(g)
                cw == charsWritten + 1 + (g.numParents - 1) * 2
                edges(h) == IF h.panic # ""
                            THEN [g |-> h, charsWritten |-> cw]
                            ELSE postMergeColumns(h, ix + 1, TRUE, cw)
            IN IF colCommit = 0
               THEN [g |-> [g EXCEPT !.panic = NilDereference],
                     charsWritten |-> charsWritten]
               ELSE IF colCommit = g.commit.Hash
               THEN IF Len(parents) = 0
                    THEN [g |-> [g EXCEPT !.panic = "merge has no parents"],
                          charsWritten |-> charsWritten]
                    ELSE IF findNewColumnByCommit(g, parents[1]) = "panic"
                    THEN [g |-> [g EXCEPT !.panic = NilDereference],
                          charsWritten |-> charsWritten]
                    ELSE IF findNewColumnByCommit(g, parents[1]) = "nil"
                    THEN [g |-> [g EXCEPT !.panic = "parent column not found"],
                          charsWritten |-> charsWritten]
                    ELSE Bind(postMergeParents([g EXCEPT !.buf = @ \o <<"|">>],
                                               parents, 1),
                              edges)
               ELSE postMergeColumns(
                      [g EXCEPT !.buf = @ \o <<(IF seenThis THEN "\\" ELSE "|"), " ">>],
                      ix + 1, seenThis, charsWritten + 2)
    IN Bind(g0, body)

outputPostMergeLine(g0) ==
    LET next(g) == IF isMappingCorrect(g) THEN updateState(g, graphStatePadding)
                   ELSE updateState(g, graphStateCollapsing)
        padded(r) == IF r.g.panic # "" THEN r.g
                     ELSE Bind(padHorizontally(r.g, r.charsWritten), next)
    IN Bind(postMergeColumns(g0, 0, FALSE, 0), padded)

PositionPanic == "position targetting column"

RECURSIVE markHorizontal(_, _, _, _)
(* for j := target*2 + 3; j < ix-2; j += 2 { newMapping[j] = target }       *)
markHorizontal(newMapping, j, ix, target) ==
    IF j >= ix - 2 THEN newMapping
    ELSE markHorizontal(Put(newMapping, j, target), j + 2, ix, target)

RECURSIVE collapseTargets(_, _, _, _)
(* The second loop of outputCollapsingLine, over the positions ix of        *)
(* g.mapping; it fills g.newMapping and picks the horizontal edge.          *)
collapseTargets(g0, ix, horizontalEdge0, horizontalEdgeTarget0) ==
    LET body(t) ==
          LET g == t[1]
              horizontalEdge == t[2]
              horizontalEdgeTarget == t[3]
              target == Get(g.mapping, ix)
              done(h) == [g |-> h, horizontalEdge |-> horizontalEdge,
                          horizontalEdgeTarget |-> horizontalEdgeTarget]
          IN IF ix >= g.mappingSize THEN done(g)
             ELSE IF target < 0
             THEN collapseTargets(g, ix + 1, horizontalEdge, horizontalEdgeTarget)
             ELSE IF target * 2 > ix THEN done([g EXCEPT !.panic = PositionPanic])
             ELSE IF target * 2 = ix
             THEN IF Get(g.newMapping, ix) # -1
                  THEN done([g EXCEPT !.panic = "new mapping already set"])
                  ELSE collapseTargets([g EXCEPT !.newMapping = Put(@, ix, target)],
                                       ix + 1, horizontalEdge, horizontalEdgeTarget)
             ELSE IF Get(g.newMapping, ix - 1) < 0
             THEN IF horizontalEdge = -1
                  THEN collapseTargets(
                         [g EXCEPT !.newMapping =
                             markHorizontal(Put(@, ix - 1, target),
                                            target * 2 + 3, ix, target)],
                         ix + 1, ix, target)
                  ELSE collapseTargets([g EXCEPT !.newMapping = Put(@, ix - 1, target)],
                                       ix + 1, horizontalEdge, horizontalEdgeTarget)
             ELSE IF Get(g.newMapping, ix - 1) = target
             THEN collapseTargets(g, ix + 1, horizontalEdge, horizontalEdgeTarget)
             ELSE IF \/ Get(g.newMapping, ix - 1) <= target
                     \/ Get(g.newMapping, ix - 2) >= 0
                     \/ Get(g.newMapping, ix - 3) # target
             THEN done([g EXCEPT !.panic = "uh oh"])
             ELSE collapseTargets([g EXCEPT !.newMapping = Put(@, ix - 2, target)],
                                  ix + 1,
                                  IF horizontalEdge = -1 THEN ix ELSE horizontalEdge,
                                  horizontalEdgeTarget)
    IN Bind(<<g0, horizontalEdge0, horizontalEdgeTarget0>>, body)

RECURSIVE collapseOutput(_, _, _, _, _)
(* The third loop of outputCollapsingLine: one character per position of    *)
(* g.newMapping.                                                             *)
collapseOutput(g0, ix, usedHorizontal, horizontalEdge, horizontalEdgeTarget) ==
    LET body(g) ==
          LET target == Get(g.newMapping, ix)
          IN IF ix >= g.mappingSize THEN g
             ELSE IF target < 0
             THEN collapseOutput([g EXCEPT !.buf = @ \o <<" ">>], ix + 1,
                                 usedHorizontal, horizontalEdge, horizontalEdgeTarget)
             ELSE IF target * 2 = ix
             THEN collapseOutput([g EXCEPT !.buf = @ \o <<"|">>], ix + 1,
                                 usedHorizontal, horizontalEdge, horizontalEdgeTarget)
             ELSE IF target = horizontalEdgeTarget /\ ix # horizontalEdge - 1
             THEN collapseOutput(
                    [g EXCEPT !.buf = @ \o <<"_">>,
                              !.newMapping = IF ix # target * 2 + 3
                                             THEN Put(@, ix, -1) ELSE @],
                    ix + 1, TRUE, horizontalEdge, horizontalEdgeTarget)
             ELSE collapseOutput(
                    [g EXCEPT !.buf = @ \o <<"/">>,
                              !.newMapping = IF usedHorizontal /\ ix < horizontalEdge
                                             THEN Put(@, ix, -1) ELSE @],
                    ix + 1, usedHorizontal, horizontalEdge, horizontalEdgeTarget)
    IN Bind(g0, body)

outputCollapsingLine(g0) ==
    LET cleared(g) == [g EXCEPT !.newMapping = [k \in 0..(g.mappingSize - 1) |-> -1] @@ @]
        shrunk(g) == IF Get(g.newMapping, g.mappingSize - 1) < 0
                     THEN [g EXCEPT !.mappingSize = @ - 1]
                     ELSE g
        swapped(g) == [g EXCEPT !.mapping = g.newMapping, !.newMapping = g.mapping]
        next(g) == IF isMappingCorrect(g) THEN updateState(g, graphStatePadding) ELSE g
        padded(g) == Bind(Bind(padHorizontally(g, g.mappingSize), swapped), next)
        output(r) == IF r.g.panic # "" THEN r.g
                     ELSE Bind(collapseOutput(Bind(r.g, shrunk), 0, FALSE,
                                              r.horizontalEdge, r.horizontalEdgeTarget),
                               padded)
    IN Bind(collapseTargets(Bind(g0, cleared), 0, -1, -1), output)

(* nextLine without its return value, which is "the state was Commit".      *)
(* Each call adds to rows the state and the mapping the row was produced    *)
(* from, the width in force and the characters written to g.buf.            *)
nextLine(g0) ==
    LET body(g) ==
          LET line == CASE g.state = graphStatePadding -> outputPaddingLine(g)
                        [] g.state = graphStateSkip -> outputSkipLine(g)
                        [] g.state = graphStatePreCommit -> outputPreCommitLine(g)
                        [] g.state = graphStateCommit -> outputCommitLine(g)
                        [] g.state = graphStatePostMerge -> outputPostMergeLine(g)
                        [] g.state = graphStateCollapsing -> outputCollapsingLine(g)
              logged(out) ==
                [out EXCEPT !.rows = Append(@,
                    [state |-> g.state, width |-> g.width, text |-> out.buf,
                     expansionRow |-> g.expansionRow,
                     mapping |-> [k \in 0..(g.mappingSize - 1) |-> Get(g.mapping, k)],
                     panic |-> out.panic])]
          IN Bind(line, logged)
    IN Bind(g0, body)

RECURSIVE paddingColumns(_, _)
paddingColumns(g0, ix) ==
    LET body(g) ==
          IF ix >= g.numColumns THEN g
          ELSE paddingColumns(
                 [g EXCEPT !.buf = @ \o <<"|">> \o
                      (IF Get(g.columns, ix) = g.commit.Hash /\ g.numParents > 2
                       THEN Repeat(" ", (g.numParents - 2) * 2) ELSE <<" ">>)],
                 ix + 1)
    IN Bind(g0, body)

paddingLine(g0) ==
    LET body(g) ==
          IF g.state # graphStateCommit THEN nextLine(g)
          ELSE [padHorizontally(paddingColumns(g, 0), g.numColumns)
                  EXCEPT !.prevState = graphStatePadding]
    IN Bind(g0, body)

isCommitFinished(g) == g.state = graphStatePadding

(* WriteString(g.buf) and WriteString(suffix) to the outfile, g.buf = "".   *)
flushBuf(g0, suffix) ==
    Bind(g0, LAMBDA g : [g EXCEPT !.outfile = @ \o g.buf \o suffix, !.buf = <<>>])

showPadding(g0) ==
    Bind(paddingLine(g0), LAMBDA g : IF g.panic # "" THEN g ELSE flushBuf(g, <<>>))

(* The model gives up on a commit that takes more than MaxLines rows.       *)
Diverges == "more than MaxLines rows"

RECURSIVE showCommitLoop(_, _)
(* for !shownCommitLine && !g.isCommitFinished(), with n rows left.         *)
showCommitLoop(g0, n) ==
    LET body(g) ==
          LET shownCommitLine == g.state = graphStateCommit
              written(h) == IF h.panic # "" THEN h
                            ELSE IF shownCommitLine THEN flushBuf(h, <<>>)
                            ELSE showCommitLoop(flushBuf(h, <<"\n">>), n - 1)
          IN IF isCommitFinished(g) THEN g
             ELSE IF n = 0 THEN [g EXCEPT !.panic = Diverges]
             ELSE Bind(nextLine(g), written)
    IN Bind(g0, body)

showCommit(g0) ==
    LET body(g) == IF isCommitFinished(g) THEN showPadding(g)
                   ELSE showCommitLoop(g, MaxLines)
    IN Bind(g0, body)

RECURSIVE showRemainderLoop(_, _)
showRemainderLoop(g0, n) ==
    LET written(h) == IF h.panic # "" THEN h
                      ELSE IF isCommitFinished(h) THEN flushBuf(h, <<>>)
                      ELSE showRemainderLoop(flushBuf(h, <<"\n">>), n - 1)
        body(g) == IF n = 0 THEN [g EXCEPT !.panic = Diverges]
                   ELSE Bind(nextLine(g), written)
    IN Bind(g0, body)

showRemainder(g0) ==
    LET body(g) == IF isCommitFinished(g) THEN g ELSE showRemainderLoop(g, MaxLines)
    IN Bind(g0, body)

(* The parent hashes a commit at position k of the sorted list can carry:   *)
(* commits later in the list, each at most once, and hashes outside the set. *)
ParentChoices(k, commits) ==
    LET later == {c \in commits : c > k}
    IN UNION {{ps \in [1..n -> later \cup {0}] :
                 \A a, b \in 1..n : (a # b /\ ps[a] # 0) => ps[a] # ps[b]}
              : n \in 0..MaxParents}

InitRender ==
    /\ graph = GraphOf(<<>>)
    /\ objects = {T, L(1)}
    /\ HEAD = <<"hash", L(1)>>
    /\ refs = (MainBranch :> T)
    /\ remoteRefs = (MainBranch :> T)
    /\ origin = (MainBranch :> T)
    /\ worktree = [edits |-> FALSE, tree |-> L(1)]
    /\ reviews = ReviewsOf(<<>>)
    /\ pc = "render"
    /\ run = 1
    /\ s = <<>>
    /\ i = 1
    /\ newBase = <<>>
    /\ newHeadRef = <<>>
    /\ headRefName = <<>>
    /\ ret = Running
    /\ log = <<>>
    /\ \E n \in 1..MaxCommits : render = newGraph(1..n)
    /\ items = <<>>
    /\ sort = NoSort
    /\ walk = NoWalk
    /\ entry = [refs |-> refs, remoteRefs |-> remoteRefs, worktree |-> worktree,
                reviews |-> reviews, origin |-> origin,
                headHash |-> L(1), first |-> Running]

(* One iteration of the loop of makeSelectItems over the sorted commits.    *)
(* "%s %s %s" stands for the hash, title and review text written after the  *)
(* commit row. A panic ends the run with no item for the commit.            *)
makeSelectItems ==
    /\ pc = "render"
    /\ render.panic = ""
    /\ Len(items) < Cardinality(render.commits)
    /\ \E ParentHashes \in ParentChoices(Len(items) + 1, render.commits) :
         LET commit == [Hash |-> Len(items) + 1, ParentHashes |-> ParentHashes]
             reset == [render EXCEPT !.outfile = <<>>, !.rows = <<>>]
             titled(g) ==
                 IF g.panic # "" THEN g
                 ELSE IF ~isCommitFinished(g)
                 THEN showRemainder([g EXCEPT !.outfile = @ \o <<"%s %s %s", "\n">>])
                 ELSE [g EXCEPT !.outfile = @ \o <<"%s %s %s">>]
         IN \E done \in {Bind(showCommit(update(reset, commit)), titled)} :
              /\ render' = done
              /\ items' = IF done.panic # "" THEN items
                          ELSE Append(items, [text |-> done.outfile,
                                              hash |-> commit.Hash,
                                              commit |-> commit,
                                              rows |-> done.rows])
    /\ UNCHANGED <<graph, repoVars, pc, run, s, i, newBase, newHeadRef, headRefName,
                   ret, log, entry, switchVars>>

SpecRender == InitRender /\ [][makeSelectItems]_vars

(* ---- topologicalSort and bfs on their own (switch.go) ------------------- *)
MaxSorted == 4

MaxSortParents == 2

(* inDegree[hash] of a Go map: the zero value for a key that was never set.  *)
Degree(inDegree, hash) == IF hash \in DOMAIN inDegree THEN inDegree[hash] ELSE 0

RECURSIVE countChildren(_, _, _, _)
(* The inner loop of the second pass: every parent of one commit that is in  *)
(* the set and already has a positive in-degree gets one more.               *)
countChildren(inDegree, commits, ParentHashes, p) ==
    IF p > Len(ParentHashes) THEN inDegree
    ELSE LET parentHash == ParentHashes[p]
         IN IF parentHash \notin DOMAIN commits
            THEN countChildren(inDegree, commits, ParentHashes, p + 1)
            ELSE IF Degree(inDegree, parentHash) > 0
            THEN countChildren([inDegree EXCEPT ![parentHash] = @ + 1],
                               commits, ParentHashes, p + 1)
            ELSE countChildren(inDegree, commits, ParentHashes, p + 1)

RECURSIVE countInDegree(_, _, _, _)
(* The second pass over the commits, from position t on.                     *)
countInDegree(inDegree, commits, tips, t) ==
    IF t > Len(tips) THEN inDegree
    ELSE countInDegree(countChildren(inDegree, commits, tips[t].ParentHashes, 1),
                       commits, tips, t + 1)

RECURSIVE releaseParents_EnqueuesEachTime(_, _, _, _)
(* releaseParents, except that a parent joins the queue every time its       *)
(* in-degree is lowered, not only when it reaches 1.                         *)
releaseParents_EnqueuesEachTime(st, commits, ParentHashes, p) ==
    IF p > Len(ParentHashes) THEN st
    ELSE LET parentHash == ParentHashes[p]
         IN IF parentHash \notin DOMAIN commits
            THEN releaseParents_EnqueuesEachTime(st, commits, ParentHashes, p + 1)
            ELSE IF Degree(st.inDegree, parentHash) = 0
            THEN releaseParents_EnqueuesEachTime(st, commits, ParentHashes, p + 1)
            ELSE releaseParents_EnqueuesEachTime(
                     [inDegree |-> [st.inDegree EXCEPT ![parentHash] = @ - 1],
                      queue |-> Append(st.queue, commits[parentHash])],
                     commits, ParentHashes, p + 1)

RECURSIVE releaseParents(_, _, _, _)
(* The inner loop of the dequeue loop, over the parents of the dequeued      *)
(* commit: a parent outside the set or with in-degree 0 is skipped; another  *)
(* loses one, and joins the queue when it reaches 1. st is [inDegree, queue]. *)
releaseParents(st, commits, ParentHashes, p) ==
    IF p > Len(ParentHashes) THEN st
    ELSE LET parentHash == ParentHashes[p]
         IN IF parentHash \notin DOMAIN commits
            THEN releaseParents(st, commits, ParentHashes, p + 1)
            ELSE IF Degree(st.inDegree, parentHash) = 0
            THEN releaseParents(st, commits, ParentHashes, p + 1)
            ELSE LET lowered == [st.inDegree EXCEPT ![parentHash] = @ - 1]
                 IN releaseParents(
                        [inDegree |-> lowered,
                         queue |-> IF lowered[parentHash] = 1
                                   THEN Append(st.queue, commits[parentHash])
                                   ELSE st.queue],
                        commits, ParentHashes, p + 1)

RECURSIVE dequeueLoop(_, _, _)
(* for len(queue) > 0: take the front commit, release its parents, set its   *)
(* own in-degree to 0 and append it to sorted.                               *)
dequeueLoop(st, commits, sorted) ==
    IF st.queue = <<>> THEN sorted
    ELSE LET commit == Head(st.queue)
             popped == [st EXCEPT !.queue = Tail(@)]
             after(x) == dequeueLoop([x EXCEPT !.inDegree[commit.Hash] = 0],
                                     commits, Append(sorted, commit))
         IN Bind(releaseParents(popped, commits, commit.ParentHashes, 1), after)

(* topologicalSort(tips, commits): tips is the list of commits, commits the  *)
(* map from hash to commit.                                                  *)
topologicalSort(tips, commits) ==
    LET ones == [h \in {tips[t].Hash : t \in 1..Len(tips)} |-> 1]
        start(inDegree) ==
            dequeueLoop([inDegree |-> inDegree,
                         queue |-> SelectSeq(tips,
                                       LAMBDA c : inDegree[c.Hash] = 1)],
                        commits, <<>>)
    IN Bind(countInDegree(ones, commits, tips, 1), start)

(* The parent lists a commit of the set can carry: at most MaxSortParents    *)
(* hashes, each a later commit of the set or 0, a commit outside the set.    *)
SortParents(k, hashes) ==
    {ps \in ParentChoices(k, hashes) : Len(ps) <= MaxSortParents}

(* Every order in which the commits hashes can be listed.                    *)
Orders(hashes) ==
    {q \in [1..Cardinality(hashes) -> hashes] :
        \A a, b \in 1..Cardinality(hashes) : a # b => q[a] # q[b]}

(* The variables of the other commands, while a function of switch.go runs   *)
(* on its own.                                                               *)
SwitchOnly ==
    /\ HEAD = <<"hash", L(1)>>
    /\ refs = (MainBranch :> T)
    /\ origin = (MainBranch :> T)
    /\ worktree = [edits |-> FALSE, tree |-> L(1)]
    /\ reviews = ReviewsOf(<<>>)
    /\ run = 1
    /\ s = <<>>
    /\ i = 1
    /\ newBase = <<>>
    /\ newHeadRef = <<>>
    /\ headRefName = <<>>
    /\ ret = Running
    /\ log = <<>>
    /\ render = NoGraph
    /\ items = <<>>
    /\ entry = [refs |-> refs, remoteRefs |-> remoteRefs, worktree |-> worktree,
                reviews |-> reviews, origin |-> origin,
                headHash |-> L(1), first |-> Running]

RECURSIVE SortSets(_, _)
(* Every set of the commits k..n: a map from hash to commit.                 *)
SortSets(k, n) ==
    IF k > n THEN {<<>>}
    ELSE {(k :> [Hash |-> k, ParentHashes |-> ps]) @@ rest :
              ps \in SortParents(k, 1..n), rest \in SortSets(k + 1, n)}

(* The commits map is built from the list itself (switch.go:166-169), so the *)
(* set is exactly the listed commits; the list comes in any order.           *)
InitSort ==
    /\ graph = GraphOf(<<>>)
    /\ objects = {T, L(1)}
    /\ remoteRefs = (MainBranch :> T)
    /\ SwitchOnly
    /\ pc = "sort"
    /\ walk = NoWalk
    /\ \E n \in 1..MaxSorted :
       \E commits \in SortSets(1, n) :
       \E order \in Orders(1..n) :
         sort = [tips |-> [t \in 1..n |-> commits[order[t]]],
                 commits |-> commits, sorted |-> <<>>]

(* sorted := topologicalSort(tips, commits), switch.go:179.                  *)
SortCall ==
    /\ pc = "sort"
    /\ pc' = "sorted"
    /\ sort' = [sort EXCEPT !.sorted = topologicalSort(sort.tips, sort.commits)]
    /\ UNCHANGED <<graph, repoVars, run, s, i, newBase, newHeadRef, headRefName,
                   ret, log, entry, renderVars, walk>>

SpecSort == InitSort /\ [][SortCall]_vars

(* leastCommonAncestor(repo, hash1, hash2): [commit, err]. Both commits are  *)
(* read from the object store; the merge base has to be unique.              *)
leastCommonAncestor(g, objs, hash1, hash2) ==
    IF hash1 \notin objs \/ hash2 \notin objs
    THEN [commit |-> <<>>, err |-> "object not found"]
    ELSE LET baseCommits == MergeBase(g, hash1, hash2)
         IN IF Cardinality(baseCommits) # 1
            THEN [commit |-> <<>>, err |-> "cannot find a unique merge base"]
            ELSE [commit |-> <<CHOOSE c \in baseCommits : TRUE>>, err |-> ""]

RECURSIVE markBases(_, _, _, _, _, _)
(* The first loop of bfs, from position t on: the merge base of every tip    *)
(* with the default branch is marked visited. Returns [visited, err].        *)
markBases(g, objs, tipHashes, trunk, t, visited) ==
    IF t > Len(tipHashes) THEN [visited |-> visited, err |-> ""]
    ELSE LET lca == leastCommonAncestor(g, objs, tipHashes[t], trunk)
         IN IF lca.err # "" THEN [visited |-> visited, err |-> lca.err]
            ELSE markBases(g, objs, tipHashes, trunk, t + 1,
                           visited \cup {lca.commit[1]})

RECURSIVE bfsLoop(_, _, _, _, _)
(* for len(queue) > 0: take the front hash; skip it when visited, otherwise  *)
(* mark it, read the commit, collect it and queue its parents.               *)
bfsLoop(g, objs, queue, visited, commits) ==
    IF queue = <<>> THEN [tips |-> commits, err |-> ""]
    ELSE LET hash == Head(queue)
         IN IF hash \in visited
            THEN bfsLoop(g, objs, Tail(queue), visited, commits)
            ELSE IF hash \notin objs
            THEN [tips |-> <<>>, err |-> "object not found"]
            ELSE bfsLoop(g, objs, Tail(queue) \o g[hash].parents,
                         visited \cup {hash}, Append(commits, hash))

(* bfs(gitHubRepo, tipHashes): [tips, err]; trunk is DefaultBranchRef().Hash() *)
bfs(g, objs, trunk, tipHashes) ==
    LET walkFrom(marked) ==
            IF marked.err # "" THEN [tips |-> <<>>, err |-> marked.err]
            ELSE bfsLoop(g, objs, tipHashes, marked.visited, <<>>)
    IN Bind(markBases(g, objs, tipHashes, trunk, 1, {}), walkFrom)

MaxTips == 2

(* A head commit recorded by the review service that was never fetched.      *)
Unfetched == U(1)

(* The tip lists of switchAction: hashes of references and of the revisions  *)
(* the review service reports.                                               *)
TipLists ==
    UNION {[1..n -> DagNodes \cup {Unfetched}] : n \in 1..MaxTips}

(* The default branch reference is the remote-tracking reference of the      *)
(* default branch, read when the repository is opened (github_repo.go:52-56). *)
InitBfs ==
    /\ pc = "walk"
    /\ sort = NoSort
    /\ objects = DagNodes
    /\ \E g \in Dags : graph = DagGraph(g, "none")
    /\ \E trunk \in DagNodes :
         /\ remoteRefs = (MainBranch :> trunk)
         /\ \E tipHashes \in TipLists :
              walk = [tipHashes |-> tipHashes, trunk |-> trunk,
                      tips |-> <<>>, err |-> ""]
    /\ SwitchOnly

(* tips, err := bfs(gitHubRepo, tipHashes), switch.go:162.                   *)
BfsCall ==
    /\ pc = "walk"
    /\ pc' = "walked"
    /\ \E r \in {bfs(graph, objects, remoteRefs[MainBranch], walk.tipHashes)} :
         walk' = [walk EXCEPT !.tips = r.tips, !.err = r.err]
    /\ UNCHANGED <<graph, repoVars, run, s, i, newBase, newHeadRef, headRefName,
                   ret, log, entry, renderVars, sort>>

SpecBfs == InitBfs /\ [][BfsCall]_vars

(* ======================= the claims ======================================= *)
Count(q, e) == Cardinality({k \in 1..Len(q) : q[k] = e})

MustRebase == "some commits are ahead"

Writes(q) == {k \in 1..Len(q) : q[k][1] \in {"setref", "reset"}}

(* C1 (as stated): whenever Sync returns MustRebase, the checked-out branch  *)
(* still points at the commit it pointed to when Sync was entered.           *)
C1_MustRebaseKeepsBranch ==
    (pc = "done" /\ ret.kind = MustRebase) => refs[headRefName] = entry.headHash

(* Scenario B: [Z new, Y open and current, X merged and behind], on a branch *)
(* of its own, clean.                                                        *)
ScenarioBKinds ==
    <<[st |-> ReviewStatusMerged, sy |-> "beh"],
      [st |-> ReviewStatusOpen, sy |-> "cur"], NewKind>>

ScenarioB ==
    /\ graph = GraphOf(ScenarioBKinds)
    /\ entry.reviews = ReviewsOf(ScenarioBKinds)
    /\ entry.headHash = TipOf(ScenarioBKinds)
    /\ HEAD = <<"branch", WorkBranch>>
    /\ ~entry.worktree.edits
    /\ pc = "done"
    /\ ret.kind # "call failed"

C3_CountStrictlyNearer ==
    (pc = "done" /\ ret.kind = MustRebase) => ret.count = i - 1

(* C3 (amended): when iteration stops on a New or Modified entry after a     *)
(* target was recorded, Sync returns MustRebase{target, count} where count   *)
(* is the number of entries strictly nearer HEAD than the stopping entry     *)
(* plus one: the stopping entry is counted too.                              *)
C3_CountIncludesStop ==
    (pc = "done" /\ ret.kind \in {"ok", MustRebase} /\ i >= 1 /\ newBase # <<>>) =>
        /\ Status(s[i]) \in {CommitStatusNew, CommitStatusModified}
        /\ ret = [kind |-> MustRebase, target |-> newBase, count |-> (i - 1) + 1]

C3_Witness ==
    pc = "done" /\ ret.kind = MustRebase /\ i >= 2 /\ ret.count = i

(* The commit a recorded target names. *)
TargetCommit == IF newBase[1] = "sha" THEN newBase[2] ELSE refs[newBase[2]]

(* C4 (as stated): a target was recorded and the whole stack was consumed =>  *)
(* the checked-out branch points at the fetched/merged commit and the        *)
(* working tree is reset to it when Sync returns success.                    *)
C4_ConsumedStackRepoints ==
    (pc = "done" /\ ret.kind = "ok" /\ i = 0 /\ newBase # <<>>) =>
        /\ refs[headRefName] = TargetCommit
        /\ worktree = [edits |-> FALSE, tree |-> TargetCommit]

(* C5 (as stated): when iteration reaches an entry whose review is Merged    *)
(* and whose status is neither Current nor Behind, Sync fails with Conflict. *)
C5_MergedModifiedConflicts ==
    (/\ pc \in {"post", "done"}
     /\ i >= 1
     /\ ret.kind # "call failed"
     /\ s[i].review # <<>>
     /\ s[i].review[1].status = ReviewStatusMerged
     /\ Status(s[i]) \notin {CommitStatusCurrent, CommitStatusBehind})
    => ret.kind = "merged review has local modifications"

(* C6 (as stated): on RemoteInconsistency the checked-out branch is not      *)
(* repointed, the working tree is not reset, and the failing fetch is the    *)
(* last call of the run.                                                     *)
C6_WrongHashLeavesBranch ==
    (pc = "done" /\ ret.kind = "branch had wrong hash") =>
        /\ refs[headRefName] = entry.headHash
        /\ worktree = entry.worktree
        /\ Last(log)[1] = "setref" /\ log[Len(log) - 1][1] = "fetch"

(* An entry the loop treats as an open review. *)
OpenReached(ci) ==
    /\ Status(ci) \in {CommitStatusCurrent, CommitStatusBehind}
    /\ ci.review[1].status = ReviewStatusOpen

(* C7: for every Open entry Sync reaches, syncReviewWithParent is invoked    *)
(* exactly once; if the head it reports is the local commit nothing is       *)
(* fetched and no target is recorded; otherwise the review's head branch is  *)
(* fetched, and when the fetched hash is the reported head that branch       *)
(* becomes the pending target and iteration goes on.                         *)
C7_OpenEntryStep ==
    pc = "loop" =>
      /\ \A id \in DOMAIN reviews : Count(log', <<"sync", id>>) <= 1
      /\ ~OpenReached(s[i]) => \A id \in DOMAIN reviews :
             Count(log', <<"sync", id>>) = Count(log, <<"sync", id>>)
      /\ OpenReached(s[i]) =>
           LET id == s[i].review[1].id
               hb == s[i].review[1].headBranch
               head == LatestRevision(reviews', id).head
               n == Len(log)
           IN /\ Count(log, <<"sync", id>>) = 0
              /\ Count(log', <<"sync", id>>) = 1
              /\ log'[n + 1] = <<"sync", id>>
              /\ IF ret'.kind = "call failed" /\ Len(log') = n + 1
                 THEN reviews' = reviews
                 ELSE IF head = s[i].commit
                 THEN /\ Len(log') = n + 1
                      /\ newBase' = newBase /\ newHeadRef' = newHeadRef
                      /\ refs' = refs /\ remoteRefs' = remoteRefs
                      /\ i' = i - 1
                 ELSE /\ log'[n + 2] = <<"fetch", hb>>
                      /\ (Len(log') = n + 3 /\ ret'.kind # "call failed"
                            /\ refs'[hb] = head) =>
                            /\ newBase' = <<"branch", hb>>
                            /\ newHeadRef' = <<head>>
                            /\ i' = i - 1

C7_OpenEntrySyncedOnce == [][C7_OpenEntryStep]_vars

(* Scenario C reached: an open entry was found behind, fetched, and its      *)
(* branch recorded as target.                                                *)
C7_Witness ==
    /\ pc \in {"loop", "post"}
    /\ i < Len(s)
    /\ OpenReached(s[i + 1])
    /\ newBase = <<"branch", s[i + 1].review[1].headBranch>>
    /\ Count(log, <<"sync", s[i + 1].review[1].id>>) = 1

(* C8 (as stated): a second run of Sync, nothing having changed remotely in  *)
(* between, writes no branch reference, does not reset the working tree and  *)
(* leaves the service's state as it was.                                     *)
C8_SecondRunWritesNothing ==
    (run = 2 /\ pc = "done" /\ entry.first.kind = "ok") =>
        /\ Writes(log) = {}
        /\ reviews = entry.reviews

(* C9: on a dirty working tree Sync fails with "index is not clean" at       *)
(* entry: no stack is loaded, no service call, fetch or reference write is   *)
(* made, and the cleanliness check is made exactly once per run.             *)
C9_DirtyFailsAtEntry ==
    pc # "idle" =>
        /\ Count(log, <<"status">>) = 1
        /\ (entry.worktree.edits \/ entry.worktree.tree # entry.headHash) =>
              /\ pc = "done"
              /\ ret.kind = "index is not clean"
              /\ log = << <<"status">> >>
              /\ s = <<>>
              /\ refs = entry.refs /\ remoteRefs = entry.remoteRefs
              /\ reviews = entry.reviews /\ worktree = entry.worktree

C9_Witness ==
    pc = "done" /\ entry.worktree.edits /\ ret.kind = "index is not clean"

(* The lowest common ancestors of a and b, from the definition.              *)
LowestCommonAncestors(a, b) ==
    {c \in DOMAIN graph :
        /\ c \in Ancestors(graph, a)
        /\ c \in Ancestors(graph, b)
        /\ ~\E d \in DOMAIN graph :
              /\ d # c
              /\ d \in Ancestors(graph, a) /\ d \in Ancestors(graph, b)
              /\ c \in Ancestors(graph, d)}

(* C10: Load fails with "cannot find a unique merge base" whenever head and  *)
(* the trunk tip do not have exactly one lowest common ancestor; it then     *)
(* returns no stack and has asked the review service about no commit.        *)
C10_AmbiguousMergeBase ==
    (pc = "loaded"
     /\ Cardinality(LowestCommonAncestors(HeadHash, remoteRefs[MainBranch])) # 1) =>
        /\ ret.kind = "cannot find a unique merge base"
        /\ s = <<>>
        /\ log = <<>>

C10_Witness ==
    /\ pc = "loaded"
    /\ Cardinality(LowestCommonAncestors(HeadHash, remoteRefs[MainBranch])) >= 2
    /\ ret.kind = "cannot find a unique merge base"

(* ---- Load ------------------------------------------------------------------ *)
TrunkTip == remoteRefs[MainBranch]

Loaded == pc = "loaded" /\ ret.kind = "ok"

(* C11 (as stated): whenever head and the trunk tip have exactly one lowest  *)
(* common ancestor, Load ends with a result: its walk along first parents    *)
(* stops at the merge base and does not run into a commit without parent.    *)
C11_UniqueBaseTerminates ==
    (pc = "loaded" /\ Cardinality(LowestCommonAncestors(HeadHash, TrunkTip)) = 1)
        => ret.kind = "ok"

(* C12 (as stated): when head is not the trunk tip and Load succeeds, the    *)
(* stack is not empty and its entry 0 is the head commit.                    *)
C12_HeadFirstUnlessTrunkTip ==
    (Loaded /\ HeadHash # TrunkTip) => (Len(s) >= 1 /\ s[1].commit = HeadHash)

(* C12 (amended): when head is not the merge base of head and the trunk tip  *)
(* (head is not an ancestor of the trunk tip) and Load succeeds, the stack   *)
(* is not empty and its entry 0 is the head commit; when head is the merge   *)
(* base, the stack is empty.                                                 *)
C12_HeadFirstUnlessMergeBase ==
    Loaded =>
        IF HeadHash \in Ancestors(graph, TrunkTip)
        THEN s = <<>>
        ELSE Len(s) >= 1 /\ s[1].commit = HeadHash

C12_Witness ==
    /\ Loaded
    /\ HeadHash \notin Ancestors(graph, TrunkTip)
    /\ Len(s) >= 2
    /\ s[1].commit = HeadHash
    /\ s[1].review = <<>>

Reviewed(q) == {j \in 1..Len(q) : q[j].review # <<>>}

(* C13 (as stated): no review ID is carried by two entries of a stack Load   *)
(* returned.                                                                 *)
C13_NoReviewTwice ==
    Loaded => \A j \in Reviewed(s) : \A m \in Reviewed(s) :
                 s[j].review[1].id = s[m].review[1].id => j = m

(* C14 (as stated): no entry of a stack Load returned is the merge base of   *)
(* head and the trunk tip.                                                   *)
C14_TrunkNeverMember ==
    Loaded => \A j \in 1..Len(s) : s[j].commit \notin MergeBase(graph, HeadHash, TrunkTip)

(* Scenario A: trunk tip T; above it X (review 1, open, current, no stack    *)
(* parent), Y (review 2, open, current), Z (no trailer); Load(Z, T).         *)
ScenarioAKinds ==
    <<[st |-> ReviewStatusOpen, sy |-> "cur"],
      [st |-> ReviewStatusOpen, sy |-> "cur"], NewKind>>

ScenarioA ==
    /\ pc = "loaded"
    /\ graph = GraphOf(ScenarioAKinds)
    /\ reviews = ReviewsOf(ScenarioAKinds)
    /\ HeadHash = TipOf(ScenarioAKinds)
    /\ TrunkTip = T

(* C15: in Scenario A Load returns exactly [Z, Y, X] with statuses           *)
(* [New, Current, Current].                                                  *)
C15_ScenarioAStack ==
    ScenarioA =>
        /\ ret.kind = "ok"
        /\ [j \in 1..Len(s) |-> s[j].commit] = <<L(3), L(2), L(1)>>
        /\ [j \in 1..Len(s) |-> Status(s[j])] =
              <<CommitStatusNew, CommitStatusCurrent, CommitStatusCurrent>>

C15_Witness ==
    ScenarioA /\ Len(s) = 3 /\ Status(s[3]) = CommitStatusCurrent

(* C16: Status returns exactly one of New, Modified, Behind, Current for     *)
(* every combination of review presence, local revision presence and        *)
(* revision numbers, the one its decision table gives, and changes nothing.  *)
C16_StatusTotal ==
    pc = "classified" =>
        LET ci == s[i] IN
        /\ ret.kind \in {CommitStatusNew, CommitStatusModified,
                          CommitStatusBehind, CommitStatusCurrent}
        /\ ret.kind = CommitStatusNew <=> ci.review = <<>>
        /\ ret.kind = CommitStatusModified <=>
              (ci.review # <<>> /\ ci.review[1].local = <<>>)
        /\ ret.kind = CommitStatusBehind <=>
              (/\ ci.review # <<>>
               /\ ci.review[1].local # <<>>
               /\ ci.review[1].local[1].number # ci.review[1].latest.number)
        /\ ret.kind = CommitStatusCurrent <=>
              (/\ ci.review # <<>>
               /\ ci.review[1].local # <<>>
               /\ ci.review[1].local[1].number = ci.review[1].latest.number)
        /\ log = <<>>
        /\ refs = entry.refs /\ remoteRefs = entry.remoteRefs
        /\ reviews = entry.reviews /\ worktree = entry.worktree

C16_Witness ==
    /\ pc = "classified"
    /\ ret.kind = CommitStatusBehind
    /\ s[i].review[1].local[1].number > s[i].review[1].latest.number

RenderRows ==
    UNION {{items[k].rows[r] : r \in DOMAIN items[k].rows} : k \in DOMAIN items}
      \cup {render.rows[r] : r \in DOMAIN render.rows}

Rendering == pc = "render"

(* C18: at every collapsing step each active entry of the mapping has      *)
(* target*2 <= its position, and outputCollapsingLine never reaches its     *)
(* "position ... targetting column" panic.                                   *)
C18_CollapsingTargetsLeft ==
    Rendering =>
        /\ render.panic # PositionPanic
        /\ \A row \in RenderRows :
             row.state = graphStateCollapsing =>
               \A k \in DOMAIN row.mapping :
                 row.mapping[k] >= 0 => row.mapping[k] * 2 <= k

(* A finished commit with a collapsing step that moves an entry leftwards.  *)
C18_Witness ==
    /\ Rendering
    /\ render.panic = ""
    /\ \E n \in DOMAIN items : \E r \in DOMAIN items[n].rows :
         LET row == items[n].rows[r]
         IN /\ row.state = graphStateCollapsing
            /\ \E k \in DOMAIN row.mapping :
                 row.mapping[k] >= 0 /\ row.mapping[k] * 2 < k

GraphRows == {graphStatePreCommit, graphStateCommit, graphStatePostMerge,
              graphStateCollapsing}

(* C19: every PreCommit, Commit, PostMerge and Collapsing row written for   *)
(* a commit is exactly as wide as the width updateWidth computed for it.    *)
C19_RowsShareWidth ==
    Rendering =>
        \A n \in DOMAIN items : \A r \in DOMAIN items[n].rows :
            items[n].rows[r].state \in GraphRows =>
                Len(items[n].rows[r].text) = items[n].rows[r].width

(* The chain 1 <- 2 <- ... <- N: every commit rendered so far has exactly   *)
(* one parent, the next commit of the list, and the last commit's parent is *)
(* outside the set.                                                          *)
ChainParents(c) ==
    <<IF c < Cardinality(render.commits) THEN c + 1 ELSE 0>>

LinearChain ==
    /\ Rendering
    /\ render.commit.Hash # 0
    /\ render.commit.ParentHashes = ChainParents(render.commit.Hash)
    /\ \A n \in DOMAIN items :
         items[n].commit.ParentHashes = ChainParents(items[n].hash)

CommitMarker == "*"

CountOf(c, text) == Cardinality({k \in DOMAIN text : text[k] = c})

(* C20: rendering a linear chain gives one item per commit rendered, every  *)
(* item a single line with exactly one commit marker, and the machine is     *)
(* back in Padding after each commit.                                        *)
C20_LinearChainSingleLines ==
    LinearChain =>
        /\ render.panic = ""
        /\ Len(items) = render.commit.Hash
        /\ render.state = graphStatePadding
        /\ \A n \in DOMAIN items :
             /\ CountOf("\n", items[n].text) = 0
             /\ CountOf(CommitMarker, items[n].text) = 1

(* The whole chain of MaxCommits commits has been rendered.                  *)
C20_Witness ==
    /\ LinearChain
    /\ Cardinality(render.commits) = MaxCommits
    /\ Len(items) = MaxCommits


(* The indexes of the entries the local walk appended: the commits without  *)
(* a review trailer, and those whose review the walk queried by commit.     *)
Walked ==
    {j \in DOMAIN s :
        \/ s[j].review = <<>>
        \/ \E n \in DOMAIN log : log[n] = <<"review", s[j].review[1].id, s[j].commit>>}

Linked == (DOMAIN s) \ Walked

(* The revision that the local revision of entry j records as its parent.   *)
RecordedParent(j) ==
    LET local == s[j].review[1].local[1]
    IN reviews[local.reviewID].revs[local.number].parent

AskedLinked == {n \in DOMAIN log : log[n][1] = "linkedRevisions"}

(* C25: the service answering furthest ancestor last, the stack of Load is  *)
(* HEAD-nearest first throughout: of two consecutive linked entries the     *)
(* second is the review that the first records as its stack parent, and the *)
(* first linked entry is the review the linked query started from, the      *)
(* stack parent of the last entry of the local walk.                        *)
C25_LinkedHeadNearestFirst ==
    Loaded =>
        /\ \A j \in Linked :
              j + 1 \in Linked =>
                  /\ RecordedParent(j) # <<>>
                  /\ RecordedParent(j)[1] = s[j + 1].review[1].id
        /\ \A j \in Linked :
              j - 1 \in Walked =>
                  \E n \in AskedLinked : log[n][2] = s[j].review[1].id

WithLocal == {j \in Walked : s[j].review # <<>> /\ s[j].review[1].local # <<>>}

(* C26: the local walk stops at the first commit that has a local          *)
(* revision: the entries of the walk are the first entries of the stack, at *)
(* most one of them has a local revision, that one is the last entry of the *)
(* walk, and every entry of the walk before the last is New or Modified.    *)
C26_WalkStopsAtLocalMatch ==
    Loaded =>
        /\ \A j \in Walked : \A n \in 1..j : n \in Walked
        /\ Cardinality(WithLocal) <= 1
        /\ \A j \in WithLocal : \A n \in Walked : n <= j
        /\ \A j \in Walked :
              j + 1 \in Walked =>
                  Status(s[j]) \in {CommitStatusNew, CommitStatusModified}

(* A walk that stopped on a local match, below entries it passed, with      *)
(* reviewed commits left between the match and the trunk.                   *)
C26_Witness ==
    /\ Loaded
    /\ \E j \in WithLocal :
          /\ j >= 2
          /\ graph[s[j].commit].parents # <<>>
          /\ graph[s[j].commit].parents[1] # TrunkTip
          /\ graph[graph[s[j].commit].parents[1]].review # <<>>

(* C27 (as stated): when the local walk ended on a local match, the linked  *)
(* query starts from the parent that local revision records; when it        *)
(* records none, no linked query is issued and the stack is the entries of  *)
(* the walk only, whatever parent the latest revision of the review records. *)
C27_LocalParentDecides ==
    Loaded =>
        \A j \in WithLocal :
            IF RecordedParent(j) = <<>>
            THEN AskedLinked = {} /\ Linked = {}
            ELSE \E n \in AskedLinked :
                    <<log[n][2], log[n][3]>> = RecordedParent(j)

(* The entries of the walk that carry a review, and the one nearest the     *)
(* trunk among them.                                                         *)
WalkedReviews == {j \in Walked : s[j].review # <<>>}

LastVisited == CHOOSE j \in WalkedReviews : \A n \in WalkedReviews : n <= j

(* The parent that the latest revision of the review of entry j records.    *)
LatestParent(j) ==
    LET latest == s[j].review[1].latest
    IN reviews[latest.reviewID].revs[latest.number].parent

(* C28: when the local walk reached the merge base without a local match,   *)
(* a linked query is issued exactly when the walk visited a review whose    *)
(* last visited one records a parent in its latest revision, and it starts  *)
(* from the latest revision of that parent review, not from the recorded    *)
(* revision number; when the walk visited no review there is no linked      *)
(* query.                                                                    *)
C28_NoMatchStartsAtLatestOfParent ==
    (Loaded /\ WithLocal = {}) =>
        IF WalkedReviews = {} \/ LatestParent(LastVisited) = <<>>
        THEN AskedLinked = {} /\ Linked = {}
        ELSE LET parent == LatestParent(LastVisited)[1]
             IN /\ \E n \in DOMAIN log : log[n] = <<"latest", parent>>
                /\ \A n \in AskedLinked :
                      log[n] = <<"linkedRevisions", parent, Len(reviews[parent].revs)>>
                /\ AskedLinked # {}

(* A walk without local match whose last visited review records, in its     *)
(* latest revision, a revision of the parent review that is not the latest. *)
C28_Witness ==
    /\ Loaded
    /\ WithLocal = {}
    /\ WalkedReviews # {}
    /\ LatestParent(LastVisited) # <<>>
    /\ LatestParent(LastVisited)[2] # Len(reviews[LatestParent(LastVisited)[1]].revs)
    /\ Linked # {}

(* The walk visited no review and reached the merge base.                   *)
C28_WitnessNoReview ==
    Loaded /\ Walked # {} /\ WalkedReviews = {}

(* C29 (as stated): every linked entry carries a latest revision and a      *)
(* local revision that are both the linked revision itself.                 *)
C29_LinkedLatestIsLinked ==
    Loaded =>
        \A j \in Linked :
            /\ s[j].review[1].local # <<>>
            /\ s[j].review[1].latest = s[j].review[1].local[1]

(* C29 (amended): the local revision of a linked entry is the linked        *)
(* revision, a revision of the entry's review with the entry's commit as    *)
(* head; its latest revision is the latest revision the service holds for   *)
(* that review, which is the linked revision only when that one is the      *)
(* latest: otherwise the entry is Behind.                                   *)
C29_LinkedLatestIsReviewLatest ==
    Loaded =>
        \A j \in Linked :
            LET r == s[j].review[1]
            IN /\ r.local # <<>>
               /\ r.local[1] = Revision(reviews, r.id, r.local[1].number)
               /\ r.local[1].head = s[j].commit
               /\ r.latest = LatestRevision(reviews, r.id)
               /\ Status(s[j]) = IF r.local[1].number = Len(reviews[r.id].revs)
                                 THEN CommitStatusCurrent ELSE CommitStatusBehind

(* A linked entry whose linked revision is not the latest of its review.    *)
C29_Witness ==
    /\ Loaded
    /\ \E j \in Linked :
          s[j].review[1].local[1].number < Len(reviews[s[j].review[1].id].revs)

(* The answer to the linked query Load issued, the reviews its walk visited, *)
(* and the positions of the answer that the loop does not skip.              *)
Chain ==
    LET n == CHOOSE m \in AskedLinked : TRUE
    IN LinkedRevisions(reviews, log[n][2], log[n][3])

VisitedReviews == {log[n][2] : n \in {m \in DOMAIN log : log[m][1] = "review"}}

Unvisited == {c \in DOMAIN Chain : Chain[c][1] \notin VisitedReviews}

ChainHead(c) == Revision(reviews, Chain[c][1], Chain[c][2]).head

(* C30: when the head commit of a linked revision is not in the local store *)
(* Load does not fail: it appends an entry that has only that hash. When    *)
(* the lookup fails in any other way Load ends with that error and without  *)
(* a stack.                                                                  *)
C30_MissingHeadIsPlaceholder ==
    (pc = "loaded" /\ AskedLinked # {}) =>
        IF \E c \in Unvisited :
              ChainHead(c) \notin objects /\ Unreadable(ChainHead(c)) \in objects
        THEN ret.kind = "object lookup failed" /\ s = <<>>
        ELSE /\ ret.kind = "ok"
             /\ \A c \in Unvisited :
                   \E j \in Linked :
                       /\ s[j].review[1].id = Chain[c][1]
                       /\ s[j].commit = ChainHead(c)
                       /\ s[j].full = (ChainHead(c) \in objects)

(* A stack with a linked entry that has only the hash.                      *)
C30_Witness ==
    /\ Loaded
    /\ \E j \in Linked : ~s[j].full /\ s[j].commit \notin objects

(* A Load that ended on the failed lookup of a linked revision's head.      *)
C30_WitnessAbort ==
    pc = "loaded" /\ ret.kind = "object lookup failed" /\ AskedLinked # {}

MergedBehind(ci) ==
    /\ Status(ci) = CommitStatusBehind
    /\ ci.review[1].status = ReviewStatusMerged

(* The calls that the step appends to the log.                              *)
NewCalls == {log'[n] : n \in (Len(log) + 1)..Len(log')}

(* C21 (as stated): after a Merged and Behind entry Sync stops iterating:   *)
(* no syncReviewWithParent call and no fetch is made for any entry nearer   *)
(* HEAD.                                                                     *)
C21_NoCallAboveStep ==
    (pc = "loop" /\ \E j \in (i + 1)..Len(s) : MergedBehind(s[j])) =>
        \A call \in NewCalls : call[1] \notin {"sync", "fetch"}

C21_MergedBehindStep ==
    (pc = "loop" /\ MergedBehind(s[i])) =>
        LET latest == s[i].review[1].latest
            n == Len(log)
        IN /\ log'[n + 1] = <<"fetch", latest.baseBranch>>
           /\ IF ret'.kind = "call failed"
              THEN pc' = "done" /\ newBase' = newBase
              ELSE /\ Len(log') = n + 2
                   /\ newBase' = <<"sha", latest.head>>
                   /\ i' = i - 1
                   /\ pc' = IF i = 1 THEN "post" ELSE "loop"

Unpublished(ci) == Status(ci) \in {CommitStatusNew, CommitStatusModified}

(* C22: at a New or Modified entry Sync stops: the step at that entry and   *)
(* what follows the loop make no service mutation, no fetch and no write of *)
(* a branch reference, so neither that entry nor any entry nearer HEAD      *)
(* causes one.                                                               *)
C22_StopStep ==
    /\ (pc = "loop" /\ Unpublished(s[i])) =>
          /\ pc' = "post" /\ i' = i
          /\ log' = log /\ ret' = ret
          /\ UNCHANGED <<refs, remoteRefs, reviews, origin, objects, worktree>>
    /\ (pc = "post" /\ i >= 1) =>
          /\ Unpublished(s[i])
          /\ pc' = "done"
          /\ log' = log
          /\ UNCHANGED <<refs, remoteRefs, reviews, origin, objects, worktree>>

C22_UnpublishedStops == [][C22_StopStep]_vars

(* Sync stopped at a New or Modified entry with entries nearer HEAD above   *)
(* it, holding a fetched head it did not write to the checked-out branch.   *)
C22_Witness ==
    /\ pc = "done"
    /\ i >= 2
    /\ Unpublished(s[i])
    /\ newHeadRef # <<>>
    /\ Writes(log) # {}
    /\ \A n \in Writes(log) : log[n][1] = "setref" /\ log[n][2] # headRefName

(* The review that the latest revision of review id recorded as its stack   *)
(* parent when Sync was entered: <<>> or <<review>>.                         *)
StackParent(id) ==
    LET parent == Last(entry.reviews[id].revs).parent
    IN IF parent = <<>> THEN <<>> ELSE <<parent[1]>>

(* C23 (index order): the loop takes the entries in strictly decreasing     *)
(* index order from the last one, each at most once: a step of the loop     *)
(* leaves the index or lowers it by one, and it stays only when Sync leaves *)
(* the loop.                                                                 *)
C23_IndexStep ==
    /\ pc = "idle" /\ pc' = "loop" => i' = Len(s')
    /\ pc = "loop" =>
          /\ i \in 1..Len(s)
          /\ i' \in {i, i - 1}
          /\ i' = i => pc' \in {"post", "done"}
          /\ s' = s

C23_DecreasingIndex == [][C23_IndexStep]_vars

(* C23 (as stated): syncReviewWithParent is called for a review only after  *)
(* every entry nearer the trunk was processed, so a child review is never   *)
(* synced before its stack parent.                                           *)
C23_ParentSyncedFirst ==
    \A n \in DOMAIN log : \A m \in DOMAIN log :
        (n < m /\ log[n][1] = "sync" /\ log[m][1] = "sync") =>
            StackParent(log[n][2]) # <<log[m][2]>>

(* The branch references that the step writes with success: every setref    *)
(* among its calls but a failing last one.                                   *)
Written ==
    {call \in NewCalls :
        call[1] = "setref" /\ ~(ret'.kind = "call failed" /\ call = ret'.target)}

(* C24: after the first call that fails (syncReviewWithParent, a fetch, a   *)
(* reference read or write, the reset) Sync makes no further call and       *)
(* returns that error; the reference writes it performed before stay as     *)
(* they are; and no call is made twice for the same stack entry.            *)
C24_FailureStep ==
    /\ ret'.kind = "call failed" =>
          /\ pc' = "done"
          /\ NewCalls # {}
          /\ ret'.target = Last(log')
          /\ \A call \in Written : refs'[call[2]] = call[3]
          /\ \A name \in DOMAIN refs :
                \/ name \in DOMAIN refs' /\ refs'[name] = refs[name]
                \/ \E call \in Written : call[2] = name
          /\ \A name \in DOMAIN remoteRefs :
                \/ name \in DOMAIN remoteRefs' /\ remoteRefs'[name] = remoteRefs[name]
                \/ <<"fetch", name>> \in NewCalls
          /\ SubSeq(log', 1, Len(log)) = log
    /\ pc \in {"loop", "post"} =>
          Cardinality(NewCalls) = Len(log') - Len(log)

C24_FirstFailureEndsSync == [][C24_FailureStep]_vars

(* Sync ended on a failed reference read or write, or a failed reset, after *)
(* it had moved a branch: the branch stays where Sync put it.               *)
C24_Witness ==
    /\ pc = "done"
    /\ ret.kind = "call failed"
    /\ ret.target[1] \in {"reference", "setref", "reset"}
    /\ \E n \in 1..(Len(log) - 1) :
          /\ log[n][1] = "setref"
          /\ refs[log[n][2]] = log[n][3]
          /\ log[n][2] \in DOMAIN entry.refs => entry.refs[log[n][2]] # log[n][3]

Detached == HEAD[1] # "branch"

DirtyAtEntry == entry.worktree.edits \/ entry.worktree.tree # entry.headHash

(* Sync returned before it loaded the stack: nothing but the status and     *)
(* HEAD was read, and nothing was written.                                   *)
EndedBeforeLoad ==
    /\ pc = "done"
    /\ s = <<>>
    /\ \A n \in DOMAIN log : log[n] \in {<<"status">>, <<"head">>}
    /\ refs = entry.refs /\ remoteRefs = entry.remoteRefs
    /\ reviews = entry.reviews /\ worktree = entry.worktree

(* C38 (as stated): Sync invoked while HEAD is not a branch fails with      *)
(* "HEAD is not a branch" before the stack is loaded and before any         *)
(* syncReviewWithParent call, fetch or reference write.                     *)
C38_DetachedFailsNotABranch ==
    (pc # "idle" /\ Detached) =>
        EndedBeforeLoad /\ ret.kind = "HEAD is not a branch"

(* C38 (amended): Sync invoked while HEAD is not a branch fails before the  *)
(* stack is loaded and before any call or write: with "HEAD is not a        *)
(* branch" when the working tree is clean, with "index is not clean" when   *)
(* it is not, for the clean check comes first.                              *)
C38_DetachedFailsAtEntry ==
    (pc # "idle" /\ Detached) =>
        /\ EndedBeforeLoad
        /\ ret.kind = IF DirtyAtEntry THEN "index is not clean"
                      ELSE "HEAD is not a branch"
        /\ log = IF DirtyAtEntry THEN << <<"status">> >>
                 ELSE << <<"status">>, <<"head">> >>

(* Sync ended on a detached HEAD over a clean tree with reviews to sync.    *)
C38_Witness ==
    /\ pc = "done"
    /\ Detached
    /\ ret.kind = "HEAD is not a branch"
    /\ DOMAIN reviews # {}

(* Sync returned success after it wrote the checked-out branch.             *)
Repointed ==
    /\ pc = "done"
    /\ ret.kind = "ok"
    /\ \E n \in DOMAIN log : log[n][1] = "reset"

(* C37 (as stated): whenever Sync succeeds and repoints the checked-out     *)
(* branch, the new tip is the head of the latest revision the service       *)
(* reports for the entry nearest HEAD, s[1]: the branch never goes to the   *)
(* head of a review deeper in the stack while a nearer entry stays at its   *)
(* old commit.                                                               *)
C37_RepointsToNearestHead ==
    Repointed =>
        /\ s[1].review # <<>>
        /\ refs[headRefName] = LatestRevision(reviews, s[1].review[1].id).head

(* C35 (as stated): rendering a topologically sorted commit set through     *)
(* makeSelectItems, with parents outside the set and merges of two or more  *)
(* parents among its commits, never reaches a panic or the dereference of a *)
(* nil commit in the state machine.                                          *)
C35_NoPanic == Rendering => render.panic = ""

(* The rows written for each commit: of the commits rendered to the end,    *)
(* and of the commit at which a panic ended the run.                         *)
Rendered ==
    {[commit |-> items[n].commit, rows |-> items[n].rows] : n \in DOMAIN items}
      \cup (IF render.panic # "" THEN {[commit |-> render.commit, rows |-> render.rows]}
            ELSE {})

RowsIn(c, state) == {r \in DOMAIN c.rows : c.rows[r].state = state}

(* C33 (as stated): PostMerge is entered after a commit's Commit row if and *)
(* only if the commit has exactly 2 parents; a commit with 0, 1 or more     *)
(* than 2 parents never produces a PostMerge row.                           *)
C33_PostMergeIffTwoParents ==
    Rendering =>
        \A c \in Rendered :
            RowsIn(c, graphStatePostMerge) # {} <=> Len(c.commit.ParentHashes) = 2

(* C33 (amended): PostMerge is entered after a commit's Commit row if and   *)
(* only if the commit has 2 or more parents, an octopus merge included; it  *)
(* is the row right after the Commit row, and there is one such row.        *)
C33_PostMergeIffMerge ==
    Rendering =>
        \A c \in Rendered :
            /\ RowsIn(c, graphStatePostMerge) # {} <=> Len(c.commit.ParentHashes) >= 2
            /\ Cardinality(RowsIn(c, graphStatePostMerge)) <= 1
            /\ \A r \in RowsIn(c, graphStatePostMerge) :
                  r > 1 /\ c.rows[r - 1].state = graphStateCommit

(* An octopus merge of three commits of the set rendered to the end, with   *)
(* its PostMerge row.                                                        *)
C33_Witness ==
    /\ Rendering
    /\ \E n \in DOMAIN items :
          /\ Len(items[n].commit.ParentHashes) = 3
          /\ \A j \in 1..3 : items[n].commit.ParentHashes[j] # 0
          /\ RowsIn(items[n], graphStatePostMerge) # {}

(* The commit rendered last, with the rows written for it.                  *)
LastRendered == [commit |-> render.commit, rows |-> render.rows]

(* The number of PreCommit rows the commit rendered last is due: 2 for each *)
(* parent beyond two, when a column is active to the right of the commit.   *)
ExpansionRows ==
    IF render.numParents >= 3 /\ render.commitIndex < render.numColumns - 1
    THEN 2 * (render.numParents - 2) ELSE 0

(* C34: a commit with p >= 3 parents that is not in the rightmost active    *)
(* column gets exactly 2*(p-2) PreCommit rows, all before its Commit row;   *)
(* any other commit gets none; and in PreCommit the expansion-row counter   *)
(* counts the rows from 0 and stays within 0..2*(p-2)-1.                    *)
C34_PreCommitRows ==
    (Rendering /\ render.commit.Hash # 0) =>
        /\ render.numParents = Len(render.commit.ParentHashes)
        /\ RowsIn(LastRendered, graphStatePreCommit) = 1..ExpansionRows
        /\ render.rows[ExpansionRows + 1].state = graphStateCommit
        /\ \A r \in 1..ExpansionRows : render.rows[r].expansionRow = r - 1
        /\ render.panic \notin {"wrong number of expansion rows",
                                "not enough parents to add expansion row"}

(* An octopus merge of three commits of the set, with a column to its       *)
(* right, rendered to the end with its two PreCommit rows.                  *)
C34_Witness ==
    /\ Rendering
    /\ render.panic = ""
    /\ render.numParents = 3
    /\ \A j \in 1..3 : render.commit.ParentHashes[j] # 0
    /\ Cardinality(RowsIn(LastRendered, graphStatePreCommit)) = 2

(* An octopus merge in the rightmost column: no PreCommit row.              *)
C34_WitnessRightmost ==
    /\ Rendering
    /\ render.panic = ""
    /\ render.numParents = 3
    /\ ExpansionRows = 0

(* The rows of c follow the order PreCommit*, Commit, PostMerge?,           *)
(* Collapsing*: one Commit row, which alone carries a commit marker, and    *)
(* exactly one; no Skip and no Padding row.                                  *)
RowsInOrder(c) ==
    /\ Cardinality(RowsIn(c, graphStateCommit)) = 1
    /\ \A k \in RowsIn(c, graphStateCommit) : \A r \in DOMAIN c.rows :
          /\ r < k => c.rows[r].state = graphStatePreCommit
          /\ r > k => c.rows[r].state \in {graphStatePostMerge, graphStateCollapsing}
          /\ c.rows[r].state = graphStatePostMerge => r = k + 1
          /\ CountOf(CommitMarker, c.rows[r].text) = IF r = k THEN 1 ELSE 0

(* The text written for c up to the title: what showCommit wrote.           *)
ShownByCommit(text) ==
    LET title == CHOOSE k \in DOMAIN text : text[k] = "%s %s %s"
    IN SubSeq(text, 1, title - 1)

(* C36 (as stated): for each commit passed to makeSelectItems the rows      *)
(* follow the order PreCommit*, Commit, PostMerge?, Collapsing* and end in  *)
(* Padding, with one Commit row of one marker, and Skip is never entered.   *)
C36_RowsInOrderToPadding ==
    (Rendering /\ render.commit.Hash # 0) =>
        /\ RowsInOrder(LastRendered)
        /\ render.state = graphStatePadding

(* C36 (commits rendered to the end): the rows of every commit for which    *)
(* makeSelectItems made an item are in that order, the Commit row is the    *)
(* last row showCommit wrote, before the title, and the machine was back in *)
(* Padding before the next update, so that no Skip row was written.         *)
C36_FinishedRowsInOrder ==
    Rendering =>
        /\ \A n \in DOMAIN items :
              /\ RowsInOrder(items[n])
              /\ CountOf("%s %s %s", items[n].text) = 1
              /\ CountOf(CommitMarker, ShownByCommit(items[n].text)) = 1
              /\ CountOf("\n", ShownByCommit(items[n].text))
                    = Cardinality(RowsIn(items[n], graphStatePreCommit))
        /\ render.panic = "" => render.state = graphStatePadding
        /\ \A c \in Rendered : RowsIn(c, graphStateSkip) = {}

(* A commit rendered to the end with rows of all four kinds.                *)
C36_Witness ==
    /\ Rendering
    /\ \E n \in DOMAIN items :
          /\ RowsIn(items[n], graphStatePreCommit) # {}
          /\ RowsIn(items[n], graphStatePostMerge) # {}
          /\ RowsIn(items[n], graphStateCollapsing) # {}

RECURSIVE Distance(_, _)
(* How far the mapping of a row is from its target layout: the sum, over    *)
(* the positions k from ix that hold a target, of k - 2 * target.           *)
Distance(row, ix) ==
    IF ix \notin DOMAIN row.mapping THEN 0
    ELSE (IF row.mapping[ix] >= 0 THEN ix - 2 * row.mapping[ix] ELSE 0)
         + Distance(row, ix + 1)

(* Each Collapsing row of c starts from a mapping off its target, and one   *)
(* that is nearer to it than that of the Collapsing row before.             *)
CollapsingNears(c) ==
    \A r \in RowsIn(c, graphStateCollapsing) :
        /\ Distance(c.rows[r], 0) > 0
        /\ r + 1 \in RowsIn(c, graphStateCollapsing) =>
              Distance(c.rows[r + 1], 0) < Distance(c.rows[r], 0)

(* C32 (as stated): for every commit of a topologically sorted input, after *)
(* update() the machine is back in Padding after finitely many rows:        *)
(* showCommit and showRemainder end, each Collapsing row bringing the       *)
(* mapping nearer its target.                                                *)
C32_ReturnsToPadding ==
    (Rendering /\ render.commit.Hash # 0) =>
        /\ render.state = graphStatePadding
        /\ Len(render.rows) < MaxLines
        /\ CollapsingNears(LastRendered)

(* C32 (the loops alone): showCommit and showRemainder never go on for      *)
(* MaxLines rows; every run of Collapsing rows nears the target; a commit   *)
(* that does not panic leaves the machine in Padding with a correct mapping. *)
C32_LoopsEnd ==
    Rendering =>
        /\ render.panic # Diverges
        /\ \A c \in Rendered : Len(c.rows) < MaxLines /\ CollapsingNears(c)
        /\ render.panic = "" =>
              render.state = graphStatePadding /\ isMappingCorrect(render)

(* A commit rendered to the end through two Collapsing rows.                *)
C32_Witness ==
    /\ Rendering
    /\ render.panic = ""
    /\ Cardinality(RowsIn(LastRendered, graphStateCollapsing)) >= 2

Sorted == pc = "sorted"

SortedHashes == [k \in 1..Len(sort.sorted) |-> sort.sorted[k].Hash]

(* The commits of the set that list h among their parents.                   *)
InSetChildren(h) ==
    {c \in DOMAIN sort.commits :
        \E p \in 1..Len(sort.commits[c].ParentHashes) :
            sort.commits[c].ParentHashes[p] = h}

(* C31: topologicalSort returns each commit of its input exactly once, and   *)
(* in the returned list no commit stands before a commit of the set that has *)
(* it as a parent.                                                           *)
C31_ChildrenFirst ==
    Sorted =>
        /\ Len(sort.sorted) = Len(sort.tips)
        /\ \A t \in 1..Len(sort.tips) : Count(sort.sorted, sort.tips[t]) = 1
        /\ \A a, b \in 1..Len(sort.sorted) :
               a < b => SortedHashes[b] \notin InSetChildren(SortedHashes[a])

(* A sorted set of MaxSorted commits with a commit that has two children in  *)
(* the set, a commit with a parent outside the set, and a list that came in  *)
(* another order than the one returned.                                      *)
C31_Witness ==
    /\ Sorted
    /\ Len(sort.sorted) = MaxSorted
    /\ \E h \in DOMAIN sort.commits : Cardinality(InSetChildren(h)) >= 2
    /\ \E h \in DOMAIN sort.commits :
           \E p \in 1..Len(sort.commits[h].ParentHashes) :
               sort.commits[h].ParentHashes[p] = 0
    /\ sort.sorted # sort.tips
    /\ InSetChildren(sort.tips[1].Hash) # {}

BfsReturned == pc = "walked" /\ walk.err = ""

(* Every commit the default branch reference reaches.                        *)
TrunkHistory == Ancestors(graph, walk.trunk)

(* C39 (as stated): bfs returns every commit at most once and returns no     *)
(* commit that is reachable from the default branch reference.               *)
C39_StopsAtTrunk ==
    BfsReturned =>
        /\ \A h \in DagNodes : Count(walk.tips, h) <= 1
        /\ \A k \in 1..Len(walk.tips) : walk.tips[k] \notin TrunkHistory

(* What the code keeps: no commit twice, no merge base of a tip with the     *)
(* default branch, and nothing that no tip reaches.                          *)
C39_StopsAtMergeBases ==
    BfsReturned =>
        /\ \A h \in DagNodes : Count(walk.tips, h) <= 1
        /\ \A k \in 1..Len(walk.tips) :
               /\ \A t \in 1..Len(walk.tipHashes) :
                      walk.tips[k] \notin MergeBase(graph, walk.tipHashes[t], walk.trunk)
               /\ \E t \in 1..Len(walk.tipHashes) :
                      walk.tips[k] \in Ancestors(graph, walk.tipHashes[t])

(* A tip that merged an older commit of the default branch into a branch     *)
(* forked earlier: the walk has returned commits.                            *)
C39_MergedTrunk ==
    /\ BfsReturned
    /\ walk.tips # <<>>
    /\ \E t \in 1..Len(walk.tipHashes) :
         /\ Len(graph[walk.tipHashes[t]].parents) = 2
         /\ graph[walk.tipHashes[t]].parents[2] \in TrunkHistory \ {walk.trunk}
         /\ graph[walk.tipHashes[t]].parents[1] \notin TrunkHistory

====
